---- MODULE Spec2Model ----
(***************************************************************************)
(* A model of the ISEE pipeline (ISEEApplication in src/main.py) and of    *)
(* the registries it uses: combination generation, execution with the      *)
(* simulation fallback, scoring / ranking and idea synthesis.              *)
(*                                                                         *)
(* Conventions.                                                            *)
(*  - A Python dict is a sequence of entries [k |-> key, v |-> value] in   *)
(*    insertion order (dicts iterate in insertion order).                  *)
(*  - An identifier is the sequence of the atoms that '_' separates, so    *)
(*    "a_b" is <<"a", "b">> and f"{x}_{y}" is x \o y.                      *)
(*  - A text is a sequence of lines, a line a sequence of tokens.          *)
(***************************************************************************)
EXTENDS Integers, Sequences, FiniteSets, TLC

VARIABLES
    model_configs,      \* ISEEApplication.model_configs      (dict id -> config)
    model_clients,      \* ISEEApplication.model_clients      (dict id -> client)
    template_library,   \* TemplateLibrary.templates          (dict id -> template)
    domain_manager,     \* DomainManager.domains              (dict id -> domain)
    base_queries,       \* QueryGenerator.base_queries        (dict id -> query)
    variations,         \* QueryGenerator.variations          (dict id -> list of queries)
    environ,            \* providers whose API key is in os.environ
    combinations,       \* ISEEApplication.combinations       (the working set)
    results,            \* ISEEApplication.results            (dict id -> Result)
    evaluations,        \* ISEEApplication.evaluations        (dict id -> scores)
    synthesized_ideas,  \* ISEEApplication.synthesized_ideas  (dict id -> idea)
    uuid_next,          \* number of uuid4() values drawn so far
    clock,              \* time.time(), as a logical clock
    exec,               \* the execute_combinations call in progress, if any
    op,                 \* the last call that completed: name and arguments
    ret,                \* its return value
    raised,             \* the exception it raised to the caller, or "none"
    state_file          \* the file save_state writes and load_state reads

vars == <<model_configs, model_clients, template_library, domain_manager,
          base_queries, variations, environ, combinations, results,
          evaluations, synthesized_ideas, uuid_next, clock, exec, op, ret,
          raised, state_file>>

\* what no operation of the pipeline writes
registries == <<model_configs, template_library, domain_manager, environ,
                state_file>>

(***************************************************************************)
(* Bounds of the model.                                                    *)
(***************************************************************************)
MaxClock == 5        \* ticks of the clock (calls that read the time or change the application)
MaxUuid == 3         \* uuid4() values drawn in one behaviour
MaxBatch == 2        \* combinations in one execute_combinations call

None == "None"

(***************************************************************************)
(* Python dicts.                                                           *)
(***************************************************************************)
EmptyDict == <<>>

DictKeys(d) == {d[i].k : i \in 1..Len(d)}

DictHas(d, key) == \E i \in 1..Len(d) : d[i].k = key

DictIndex(d, key) == CHOOSE i \in 1..Len(d) : d[i].k = key

DictGet(d, key) == d[DictIndex(d, key)].v

\* d[key] = value: an existing key keeps its position, a new key goes last
DictSet(d, key, value) ==
    IF DictHas(d, key)
    THEN [d EXCEPT ![DictIndex(d, key)] = [k |-> key, v |-> value]]
    ELSE Append(d, [k |-> key, v |-> value])

RECURSIVE DictUpdate(_, _)
\* d.update(other)
DictUpdate(d, other) ==
    IF other = <<>> THEN d
    ELSE DictUpdate(DictSet(d, other[1].k, other[1].v), Tail(other))

DictValues(d) == [i \in 1..Len(d) |-> d[i].v]

NoDuplicateKeys(d) == \A i, j \in 1..Len(d) : d[i].k = d[j].k => i = j

Range(s) == {s[i] : i \in 1..Len(s)}

RECURSIVE Flatten(_)
Flatten(ss) == IF ss = <<>> THEN <<>> ELSE Head(ss) \o Flatten(Tail(ss))

RECURSIVE SeqSum(_)
SeqSum(s) == IF s = <<>> THEN 0 ELSE Head(s) + SeqSum(Tail(s))

Min(a, b) == IF a < b THEN a ELSE b

\* s[:n] of Python, n of either sign
Prefix(s, n) ==
    IF n >= 0 THEN SubSeq(s, 1, Min(n, Len(s)))
    ELSE SubSeq(s, 1, IF Len(s) + n > 0 THEN Len(s) + n ELSE 0)

\* s[lo:hi] of Python for 0 <= lo, hi
Slice(s, lo, hi) == SubSeq(s, lo + 1, Min(hi, Len(s)))

NumStr(i) == CASE i = 0 -> "0" [] i = 1 -> "1" [] i = 2 -> "2" [] i = 3 -> "3"
               [] i = 4 -> "4" [] i = 5 -> "5" [] i = 6 -> "6" [] i = 7 -> "7"
               [] i = 8 -> "8" [] i = 9 -> "9" [] i = 10 -> "10" [] i = 11 -> "11"
               [] i = 12 -> "12" [] OTHER -> "n"

(***************************************************************************)
(* Instruction templates (src/instruction_templates.py).                   *)
(***************************************************************************)
Lit(s) == [ph |-> FALSE, s |-> s]
Ph(s) == [ph |-> TRUE, s |-> s]

InstructionTemplate(id, name, template, metadata) ==
    [id |-> id, name |-> name, template |-> template, metadata |-> metadata]

\* a format that leaves the placeholder without a variable empty
FormatLenient(t, variables) ==
    [ok |-> TRUE,
     text |-> [i \in 1..Len(t.template) |->
                 IF ~t.template[i].ph THEN t.template[i].s
                 ELSE IF t.template[i].s \in DOMAIN variables
                 THEN variables[t.template[i].s] ELSE ""]]

\* str.format(**variables): the first placeholder without a variable is the
\* KeyError that format turns into ValueError; extra variables are ignored
Format(t, variables) ==
    LET parts == t.template
        missing == {i \in 1..Len(parts) :
                       parts[i].ph /\ parts[i].s \notin DOMAIN variables}
    IN  IF missing # {}
        THEN [ok |-> FALSE, error |-> "ValueError",
              missing_key |-> parts[CHOOSE i \in missing :
                                       \A j \in missing : i <= j].s,
              template |-> t.name]
        ELSE [ok |-> TRUE,
              text |-> [i \in 1..Len(parts) |->
                          IF parts[i].ph THEN variables[parts[i].s]
                          ELSE parts[i].s]]

\* template.metadata.get("cognitive_style", "default")
TemplateStyle(t) ==
    IF "cognitive_style" \in DOMAIN t.metadata
    THEN t.metadata.cognitive_style ELSE "default"

\* two of the ten templates of create_default_library
DefaultLibrary ==
    <<[k |-> <<"ins", "analytical">>,
       v |-> InstructionTemplate(<<"ins", "analytical">>, "Analytical Framework",
                <<Lit("You are an expert analyst specializing in"), Ph("domain")>>,
                [cognitive_style |-> "analytical"])],
      [k |-> <<"ins", "creative">>,
       v |-> InstructionTemplate(<<"ins", "creative">>, "Creative Framework",
                <<Lit("You are a highly creative thinker specializing in"), Ph("domain")>>,
                [cognitive_style |-> "divergent"])]>>

\* a library loaded by load_config from the "instructions" of a configuration
ConfigLibrary ==
    <<[k |-> <<"b", "c">>,
       v |-> InstructionTemplate(<<"b", "c">>, "Plain",
                <<Lit("You are an expert in"), Ph("domain")>>,
                [cognitive_style |-> "plain"])],
      [k |-> <<"c">>,
       v |-> InstructionTemplate(<<"c">>, "Extra",
                <<Lit("As an expert in"), Ph("domain"), Lit("consider"), Ph("extra")>>,
                [strength |-> "none"])]>>

\* TemplateLibrary.get_template: [found, template] or the KeyError
get_template(lib, template_id) ==
    IF ~DictHas(lib, template_id)
    THEN [ok |-> FALSE, error |-> "KeyError"]
    ELSE [ok |-> TRUE, value |-> DictGet(lib, template_id)]

list_templates(lib) == DictValues(lib)

(***************************************************************************)
(* Domains (src/domain_manager.py).                                        *)
(***************************************************************************)
Domain(id, name, description, keywords) ==
    [id |-> id, name |-> name, description |-> description, keywords |-> keywords]

\* two of the domains of create_default_domains
DefaultDomains ==
    <<[k |-> <<"domain", "urban">>,
       v |-> Domain(<<"domain", "urban">>, "Urban Planning",
                    "the design of cities", <<"transport">>)],
      [k |-> <<"domain", "education">>,
       v |-> Domain(<<"domain", "education">>, "Education",
                    "the systems of learning", <<>>)]>>

get_domain(mgr, domain_id) ==
    IF ~DictHas(mgr, domain_id)
    THEN [ok |-> FALSE, error |-> "KeyError"]
    ELSE [ok |-> TRUE, value |-> DictGet(mgr, domain_id)]

list_domains(mgr) == DictValues(mgr)

(***************************************************************************)
(* Queries and their variations (src/query_generator.py).                  *)
(***************************************************************************)
Query(id, text, variables) == [id |-> id, text |-> text, variables |-> variables]

\* two base queries in the shape of create_default_queries: one that the
\* rephrasing patterns match and that has the variable "extra", one neither
DefaultQueries ==
    <<[k |-> <<"q", "urban">>,
       v |-> Query(<<"q", "urban">>,
                   <<"How might we", "improve urban transportation", "?">>,
                   [domain |-> "urban transportation", extra |-> "next decade"])],
      [k |-> <<"q", "school">>,
       v |-> Query(<<"q", "school">>, <<"Design", "a better school">>,
                   [focus |-> "future preparation"])]>>

\* str.lower() on the tokens the queries are made of
Lower(tok) == CASE tok = "How might we" -> "how might we"
                [] tok = "Design" -> "design"
                [] OTHER -> tok

LowerText(text) == [i \in 1..Len(text) |-> Lower(text[i])]

EndsWithQ(text) == text # <<>> /\ text[Len(text)] = "?"

\* text[:-1] when text ends with "?"
StripQ(text) == IF EndsWithQ(text) THEN SubSeq(text, 1, Len(text) - 1) ELSE text

\* the head of each strategy's list of phrasings (random.choice over it)
Phrasings(strategy) ==
    CASE strategy = "constraint" -> <<"with limited resources", "within a tight budget">>
      [] strategy = "perspective" -> <<"from the perspective of end users">>
      [] strategy = "context" -> <<"in the context of rapid urbanization">>
      [] strategy = "rephrased" -> <<"-">>
      [] strategy = "aspect" -> <<"the technological aspects of">>
      [] strategy = "approach" -> <<"Instead of conventional solutions, how might we">>

Strategies == {"constraint", "perspective", "context", "rephrased", "aspect", "approach"}

\* random.choice(strategies), then the strategy's own random.choice
StrategyChoices ==
    UNION {{[strategy |-> st, phrasing |-> Phrasings(st)[i]] :
              i \in 1..Len(Phrasings(st))} : st \in Strategies}

_rephrase_question(text) ==
    LET low == LowerText(text)
        rephrased ==
            IF low # <<>> /\ low[1] = "how might we"
            THEN <<"what are effective ways to">> \o Tail(low)
            ELSE <<"What innovative approaches could address the challenge of">>
                 \o low \o <<"?">>
        ended == IF EndsWithQ(rephrased) THEN rephrased ELSE rephrased \o <<"?">>
    IN  IF ended[1] = "what are effective ways to"
        THEN <<"What are effective ways to">> \o Tail(ended) ELSE ended

_adopt_alternative_approach(text, approach) ==
    LET low == LowerText(text)
        core == IF low # <<>> /\ low[1] = "how might we" THEN Tail(low) ELSE low
    IN  <<approach>> \o StripQ(core) \o <<"?">>

\* the query one strategy call returns; uuid is str(uuid4())[:8]
ApplyStrategy(base_query, choice, uuid) ==
    LET st == choice.strategy
        ph == choice.phrasing
        text ==
            CASE st = "constraint" -> base_query.text \o <<",", ph, "?">>
              [] st = "perspective" -> base_query.text \o <<", considering it", ph, "?">>
              [] st = "context" -> base_query.text \o <<",", ph, "?">>
              [] st = "rephrased" -> _rephrase_question(base_query.text)
              [] st = "aspect" ->
                    <<"How might we address", ph>> \o StripQ(base_query.text) \o <<"?">>
              [] st = "approach" -> _adopt_alternative_approach(base_query.text, ph)
        variables ==
            CASE st = "constraint" -> [constraint |-> ph] @@ base_query.variables
              [] st = "perspective" -> [perspective |-> ph] @@ base_query.variables
              [] st = "context" -> [context |-> ph] @@ base_query.variables
              [] st = "rephrased" -> base_query.variables
              [] st = "aspect" -> [focused_aspect |-> ph] @@ base_query.variables
              [] st = "approach" -> [alternative_approach |-> ph] @@ base_query.variables
    IN  Query(base_query.id \o <<st, uuid>>, text, variables)

Uuid(n) == CASE n = 0 -> "u0" [] n = 1 -> "u1" [] n = 2 -> "u2" [] n = 3 -> "u3"
             [] n = 4 -> "u4" [] n = 5 -> "u5" [] n = 6 -> "u6" [] OTHER -> "ux"

RECURSIVE CreateLoop(_, _, _, _, _, _, _)
\* the while loop of _create_variations: every list of variations it can
\* return, with the number of attempts (strategy calls) made
CreateLoop(choices, base_query, count, vs, used_texts, attempts, uuid0) ==
    IF Len(vs) < count /\ attempts < count * 3
    THEN UNION {
           LET variation == ApplyStrategy(base_query, ch, Uuid(uuid0 + attempts))
           IN  IF variation.text \notin used_texts
               THEN CreateLoop(choices, base_query, count, Append(vs, variation),
                               used_texts \cup {variation.text}, attempts + 1, uuid0)
               ELSE CreateLoop(choices, base_query, count, vs, used_texts,
                               attempts + 1, uuid0)
           : ch \in choices}
    ELSE {[variations |-> vs, attempts |-> attempts]}

\* count strategy calls whose texts are not compared with the earlier ones
CreateVariationsUnchecked(choices, base_query, count, uuid0) ==
    {[variations |-> [i \in 1..count |->
                         ApplyStrategy(base_query, f[i], Uuid(uuid0 + i - 1))],
      attempts |-> count] : f \in [1..count -> choices]}

\* choices: the outcomes of the two random.choice calls that are explored
_create_variations(choices, base_query, count, uuid0) ==
    CreateLoop(choices, base_query, count, <<>>, {}, 0, uuid0)

\* QueryGenerator.get_query_by_id: the query, or None (ok = FALSE)
get_query_by_id(bq, vars_of, query_id) ==
    IF DictHas(bq, query_id) THEN [ok |-> TRUE, value |-> DictGet(bq, query_id)]
    ELSE LET all == Flatten(DictValues(vars_of))
             hits == {i \in 1..Len(all) : all[i].id = query_id}
         IN  IF hits = {} THEN [ok |-> FALSE, error |-> None]
             ELSE [ok |-> TRUE,
                   value |-> all[CHOOSE i \in hits : \A j \in hits : i <= j]]

(***************************************************************************)
(* Model configurations and API clients (src/model_api_integration.py).    *)
(***************************************************************************)
\* "models" of a configuration: an explicit provider (in any case) and a
\* provider to be guessed from the name
ConfigKnown ==
    <<[k |-> <<"a">>, v |-> [id |-> <<"a">>, name |-> "Claude 3", provider |-> "Anthropic"]],
      [k |-> <<"a", "b">>, v |-> [id |-> <<"a", "b">>, name |-> "gpt-4", provider |-> ""]]>>

\* a name that gives no hint, and a provider the factory does not know
ConfigUnknown ==
    <<[k |-> <<"a">>, v |-> [id |-> <<"a">>, name |-> "llama", provider |-> ""]],
      [k |-> <<"a", "b">>, v |-> [id |-> <<"a", "b">>, name |-> "command", provider |-> "cohere"]]>>

\* provider.lower() / model_name.lower() on the names the configurations use
LowerName(x) == CASE x = "Anthropic" -> "anthropic"
                  [] x = "Claude 3" -> "claude 3"
                  [] OTHER -> x

\* create_client with client constructors that accept a missing API key
CreateClientWithoutKey(provider, env) ==
    LET p == LowerName(provider)
    IN  IF p \notin {"anthropic", "openai"}
        THEN [ok |-> FALSE, error |-> "ValueError"]
        ELSE [ok |-> TRUE, value |-> [provider |-> p]]

\* ModelAPIFactory.create_client: the client, or the exception of the factory
\* (ValueError) or of the client constructor (APIIntegrationError: no API key)
create_client(provider, env) ==
    LET p == LowerName(provider)
    IN  IF p \notin {"anthropic", "openai"}
        THEN [ok |-> FALSE, error |-> "ValueError"]
        ELSE IF p \notin env
        THEN [ok |-> FALSE, error |-> "APIIntegrationError"]
        ELSE [ok |-> TRUE, value |-> [provider |-> p]]

\* _get_or_create_model_client: [client, the cache afterwards, constructed];
\* client None is ok = FALSE
\* a lookup that constructs a client on every call, cached or not
CreateModelClientAnew(clients, configs, env, model_id) ==
    IF ~DictHas(configs, model_id)
    THEN [ok |-> FALSE, clients |-> clients, constructed |-> FALSE]
    ELSE LET model_config == DictGet(configs, model_id)
             name == LowerName(model_config.name)
             provider ==
                 IF model_config.provider # "" THEN model_config.provider
                 ELSE IF name \in {"claude 3"} THEN "anthropic"
                 ELSE IF name \in {"gpt-4"} THEN "openai"
                 ELSE ""
             made == create_client(provider, env)
             client == [provider |-> made.value.provider,
                        instance |-> Len(clients) + 1]
         IN  IF provider = "" \/ ~made.ok
             THEN [ok |-> FALSE, clients |-> clients, constructed |-> FALSE]
             ELSE [ok |-> TRUE, value |-> client,
                   clients |-> DictSet(clients, model_id, client),
                   constructed |-> TRUE]

_get_or_create_model_client(clients, configs, env, model_id) ==
    IF DictHas(clients, model_id)
    THEN [ok |-> TRUE, value |-> DictGet(clients, model_id), clients |-> clients,
          constructed |-> FALSE]
    ELSE IF ~DictHas(configs, model_id)
    THEN [ok |-> FALSE, clients |-> clients, constructed |-> FALSE]
    ELSE LET model_config == DictGet(configs, model_id)
             name == LowerName(model_config.name)
             provider ==
                 IF model_config.provider # "" THEN model_config.provider
                 ELSE IF name \in {"claude 3"} THEN "anthropic"
                 ELSE IF name \in {"gpt-4"} THEN "openai"
                 ELSE ""
             made == create_client(provider, env)
             \* the object constructed: the instance-th client of the application
             client == [provider |-> made.value.provider,
                        instance |-> Len(clients) + 1]
         IN  IF provider = "" \/ ~made.ok
             THEN [ok |-> FALSE, clients |-> clients, constructed |-> FALSE]
             ELSE [ok |-> TRUE, value |-> client,
                   clients |-> DictSet(clients, model_id, client),
                   constructed |-> TRUE]

(***************************************************************************)
(* ISEEApplication.__init__ and load_config.                               *)
(***************************************************************************)
\* the configurations the application is started with
Worlds ==
    {[configs |-> <<>>, library |-> DefaultLibrary, env |-> {}],
     [configs |-> ConfigKnown, library |-> ConfigLibrary, env |-> {"anthropic"}],
     [configs |-> ConfigUnknown, library |-> DefaultLibrary,
      env |-> {"anthropic", "openai"}]}

NoExec == [pc |-> "idle"]

\* no file at the path of the state file
NoFile == [exists |-> FALSE]

Init ==
    /\ \E w \in Worlds :
          /\ model_configs = w.configs
          /\ template_library = w.library
          /\ environ = w.env
    /\ domain_manager = DefaultDomains
    /\ base_queries = DefaultQueries
    /\ variations = [i \in 1..Len(DefaultQueries) |->
                        [k |-> DefaultQueries[i].k, v |-> <<>>]]
    /\ model_clients = EmptyDict
    /\ combinations = <<>>
    /\ results = EmptyDict
    /\ evaluations = EmptyDict
    /\ synthesized_ideas = EmptyDict
    /\ uuid_next = 0
    /\ clock = 0
    /\ exec = NoExec
    /\ op = [name |-> "init"]
    /\ ret = None
    /\ raised = "none"
    /\ state_file = NoFile

(***************************************************************************)
(* generate_combinations (src/main.py).                                    *)
(***************************************************************************)
\* random.sample(s, k) for 0 <= k <= Len(s): every ordered choice of k
\* distinct positions
Sample(s, k) ==
    {[i \in 1..k |-> s[f[i]]] :
        f \in {g \in [1..k -> 1..Len(s)] : \A i, j \in 1..k : g[i] = g[j] => i = j}}

\* f"{model}_{template.id}_{query.id}_{domain.id}"
CombinationId(model, template_id, query_id, domain_id) ==
    model \o template_id \o query_id \o domain_id

Combination(model, template_id, query_id, domain_id) ==
    [id |-> CombinationId(model, template_id, query_id, domain_id),
     model |-> model, template |-> template_id, query |-> query_id,
     domain |-> domain_id]

\* the four nested loops
Product(models, templates, all_queries, domains) ==
    Flatten([m \in 1..Len(models) |->
      Flatten([t \in 1..Len(templates) |->
        Flatten([q \in 1..Len(all_queries) |->
          [d \in 1..Len(domains) |->
             Combination(models[m], templates[t].id, all_queries[q].id,
                         domains[d].id)]])])])

\* f"model_{i}" for i in range(1, model_count + 1)
PlaceholderModels(model_count) == [i \in 1..model_count |-> <<"model", NumStr(i)>>]

Returned(name, args, value) ==
    /\ op' = [name |-> name, args |-> args]
    /\ ret' = value
    /\ raised' = "none"

\* an error that is logged and swallowed: the call returns None
Swallowed(name, args, error) ==
    /\ op' = [name |-> name, args |-> args]
    /\ ret' = None
    /\ raised' = "none"

Raised(name, args, error) ==
    /\ op' = [name |-> name, args |-> args]
    /\ ret' = None
    /\ raised' = error

\* self.combinations extended by the new combinations
ExtendCombinations(old, combos) == old \o combos

\* self.combinations = combinations
StoreCombinations(old, combos) == combos

GenerateCombinations(choices, query_id, domain_ids, model_count, instruction_count, query_variations) ==
    LET args == [query_id |-> query_id, domain_ids |-> domain_ids,
                 model_count |-> model_count,
                 instruction_count |-> instruction_count,
                 query_variations |-> query_variations]
        base_query == get_query_by_id(base_queries, variations, query_id)
        found == [i \in 1..Len(domain_ids) |-> get_domain(domain_manager, domain_ids[i])]
        configured == [i \in 1..Len(model_configs) |-> model_configs[i].k]
        all_templates == list_templates(template_library)
    IN
    /\ exec.pc = "idle"
    /\ clock < MaxClock
    /\ clock' = clock + 1
    /\ UNCHANGED <<registries, base_queries, model_clients, results, evaluations,
                   synthesized_ideas, exec>>
    /\ IF ~base_query.ok
       THEN /\ Raised("generate_combinations", args, "KeyError")
            /\ UNCHANGED <<variations, uuid_next, combinations>>
       ELSE IF ~DictHas(base_queries, query_id)
       THEN \* generate_variations knows base queries only
            /\ Raised("generate_combinations", args, "KeyError")
            /\ UNCHANGED <<variations, uuid_next, combinations>>
       ELSE
         \E created \in _create_variations(choices, base_query.value,
                                            query_variations, uuid_next) :
           /\ uuid_next + created.attempts <= MaxUuid
           /\ uuid_next' = uuid_next + created.attempts
           /\ variations' = DictSet(variations, query_id,
                                DictGet(variations, query_id) \o created.variations)
           /\ IF \E i \in 1..Len(found) : ~found[i].ok
              THEN /\ Raised("generate_combinations", args, "KeyError")
                   /\ UNCHANGED combinations
              ELSE
                \E models \in (IF model_configs # <<>>
                               THEN (IF model_count < Len(configured)
                                     THEN Sample(configured, model_count)
                                     ELSE {configured})
                               ELSE {PlaceholderModels(model_count)}),
                   templates \in (IF Len(all_templates) > instruction_count
                                  THEN Sample(all_templates, instruction_count)
                                  ELSE {all_templates}) :
                  LET all_queries == <<base_query.value>> \o created.variations
                      domains == IF domain_ids # <<>>
                                 THEN [i \in 1..Len(found) |-> found[i].value]
                                 ELSE list_domains(domain_manager)
                      combos == Product(models, templates, all_queries, domains)
                  IN  /\ combinations' = StoreCombinations(combinations, combos)
                      /\ Returned("generate_combinations",
                                  args @@
                                  [models |-> models,
                                   templates |-> [i \in 1..Len(templates) |-> templates[i].id],
                                   all_queries |-> [i \in 1..Len(all_queries) |-> all_queries[i].id],
                                   domains |-> [i \in 1..Len(domains) |-> domains[i].id]],
                                  combos)


(***************************************************************************)
(* execute_combinations (src/main.py).                                     *)
(***************************************************************************)
\* what AnthropicClient.generate / OpenAIClient.generate can do with a call:
\* return the text of the response (a title line and a body line, or the
\* empty string) or raise
GenerateOutcomes ==
    {[ok |-> TRUE, text |-> <<<<"Protected bike lanes">>, <<"Build", "them", "everywhere">>>>],
     [ok |-> TRUE, text |-> <<>>],
     [ok |-> FALSE, error |-> "APIIntegrationError",
      message |-> "Request to Anthropic API failed"]}

\* "\n\n".join(parts): the parts as lines with a blank line between them
RECURSIVE JoinBlank(_)
JoinBlank(parts) ==
    IF Len(parts) <= 1 THEN parts
    ELSE <<Head(parts), <<>>>> \o JoinBlank(Tail(parts))

\* {"domain": domain.description, **query.variables}
TemplateVariables(query, domain) ==
    query.variables @@ [domain |-> domain.description]

\* f"{formatted_instruction}\n\n{query.text}"
Prompt(formatted_instruction, query) == <<formatted_instruction, <<>>, query.text>>

\* _simulate_model_response; picks are the three random.choice(domain.keywords)
_simulate_model_response(combination, template, query, domain, picks, now) ==
    LET formatted == Format(template, TemplateVariables(query, domain))
        model_name == combination.model
        template_style == TemplateStyle(template)
        ideas == [i \in 1..3 |->
                    IF domain.keywords # <<>>
                    THEN <<"Idea", NumStr(i), "A solution involving",
                           domain.keywords[picks[i]],
                           "that addresses the core challenge.">>
                    ELSE <<"Idea", NumStr(i),
                           "A novel approach to solving this problem.">>]
        response_parts ==
            << <<"This is a simulated response from">> \o model_name
                   \o <<"using the", template_style, "approach.">>,
               <<"Domain:", domain.name>>,
               <<"The query was:">> \o query.text,
               <<"Here are some ideas that address this challenge:">> >>
            \o ideas
            \o << <<"These ideas represent a", template_style,
                    "approach to the problem within the", domain.name, "domain.">> >>
    IN  IF ~formatted.ok
        THEN [ok |-> FALSE, error |-> formatted.error, called |-> FALSE]
        ELSE [ok |-> TRUE, kind |-> "simulated", called |-> FALSE,
              result |-> [combination_id |-> combination.id,
                          prompt |-> Prompt(formatted.text, query),
                          response |-> JoinBlank(response_parts),
                          metadata |-> [model |-> model_name,
                                        template_style |-> template_style,
                                        timestamp |-> now,
                                        simulated |-> TRUE]]]

\* f"Error generating response: {error_message}"
ErrorText(message) == << <<"Error generating response:", message>> >>

\* _generate_model_response with the try / except around client.generate left
\* out: the exception of the client leaves the function
GenerateModelResponseRaising(combination, template, query, domain, got, outcome, picks, now) ==
    LET formatted == Format(template, TemplateVariables(query, domain))
    IN  IF ~formatted.ok
        THEN [ok |-> FALSE, error |-> formatted.error, called |-> FALSE]
        ELSE IF ~got.ok
        THEN _simulate_model_response(combination, template, query, domain, picks, now)
        ELSE IF ~outcome.ok
        THEN [ok |-> FALSE, error |-> outcome.error, called |-> TRUE]
        ELSE [ok |-> TRUE, kind |-> "api_ok", called |-> TRUE,
              result |-> [combination_id |-> combination.id,
                          prompt |-> Prompt(formatted.text, query),
                          response |-> outcome.text,
                          metadata |-> [model |-> combination.model,
                                        template_style |-> TemplateStyle(template),
                                        timestamp |-> now,
                                        duration |-> 0]]]

\* _generate_model_response; got is the outcome of _get_or_create_model_client,
\* outcome that of client.generate; called tells whether client.generate was
\* called. The logical clock does not advance within one call, so duration is 0.
_generate_model_response(combination, template, query, domain, got, outcome, picks, now) ==
    LET formatted == Format(template, TemplateVariables(query, domain))
        model_id == combination.model
        template_style == TemplateStyle(template)
        response_text == IF outcome.ok THEN outcome.text ELSE ErrorText(outcome.message)
    IN  IF ~formatted.ok
        THEN [ok |-> FALSE, error |-> formatted.error, called |-> FALSE]
        ELSE IF ~got.ok
        THEN _simulate_model_response(combination, template, query, domain, picks, now)
        ELSE [ok |-> TRUE, kind |-> IF outcome.ok THEN "api_ok" ELSE "api_error",
              called |-> TRUE,
              result |-> [combination_id |-> combination.id,
                          prompt |-> Prompt(formatted.text, query),
                          response |-> response_text,
                          metadata |-> [model |-> model_id,
                                        template_style |-> template_style,
                                        timestamp |-> now,
                                        duration |-> 0]]]

\* the body of the for loop up to the result: the lookups, then one of the two
\* response functions. A failed lookup or format is an exception of the call.
RunCombination(combo, use_real_models, got, outcome, picks, now) ==
    LET template == get_template(template_library, combo.template)
        query_obj == get_query_by_id(base_queries, variations, combo.query)
        domain == get_domain(domain_manager, combo.domain)
        use_api == use_real_models /\ model_configs # <<>>
    IN  IF ~template.ok THEN [ok |-> FALSE, error |-> "KeyError", called |-> FALSE]
        ELSE IF ~domain.ok THEN [ok |-> FALSE, error |-> "KeyError", called |-> FALSE]
        ELSE IF ~query_obj.ok
        THEN [ok |-> FALSE, error |-> "AttributeError", called |-> FALSE]
        ELSE IF use_api
        THEN _generate_model_response(combo, template.value, query_obj.value,
                                      domain.value, got, outcome, picks, now)
        ELSE _simulate_model_response(combo, template.value, query_obj.value,
                                      domain.value, picks, now)

\* results[combo["id"]] = result, in the list that would keep every result
StoreResultAppend(store, combination_id, result) ==
    Append(store, [k |-> combination_id, v |-> result])

\* a store keyed by the model of the result
StoreResultByModel(store, combination_id, result) ==
    DictSet(store, result.metadata.model, result)

\* a store that is rebound to hold the new result alone
StoreResultAlone(store, combination_id, result) ==
    DictSet(EmptyDict, combination_id, result)

\* results[combo["id"]] = result and self.results[combo["id"]] = result
StoreResult(store, combination_id, result) == DictSet(store, combination_id, result)

\* the loop at its start, with a log of what it does
ExecStarted(args, chosen, batch) ==
    [pc |-> "running", args |-> args, chosen |-> chosen, batch |-> batch,
     i |-> 1, results |-> EmptyDict, status |-> <<>>, calls |-> <<>>]

\* the loop started whatever dry_run says
ExecStartedAnyway(args, chosen, batch, dry_run) == ExecStarted(args, chosen, batch)

\* if dry_run: return {} before the loop; else the loop starts
ExecAfterStart(args, chosen, batch, dry_run) ==
    IF dry_run THEN NoExec ELSE ExecStarted(args, chosen, batch)

\* max_to_execute=None and max_to_execute=m
Uncapped == [given |-> FALSE]
Cap(m) == [given |-> TRUE, value |-> m]

\* the entry of execute_combinations: the list to run, the cap, the dry run;
\* max_to_execute.given = FALSE is max_to_execute=None
ExecuteStart(combinations_arg, max_to_execute, dry_run, use_real_models) ==
    LET args == [combinations |-> combinations_arg, max_to_execute |-> max_to_execute,
                 dry_run |-> dry_run, use_real_models |-> use_real_models]
        chosen == IF combinations_arg # <<>> THEN combinations_arg ELSE combinations
        capped == /\ max_to_execute.given
                  /\ max_to_execute.value # 0
                  /\ Len(chosen) > max_to_execute.value
        batch == IF capped THEN Prefix(chosen, max_to_execute.value) ELSE chosen
    IN  /\ exec.pc = "idle"
        /\ Len(batch) <= MaxBatch
        /\ UNCHANGED <<registries, base_queries, variations, model_clients,
                       combinations, results, evaluations, synthesized_ideas,
                       uuid_next, clock>>
        /\ exec' = ExecAfterStart(args, chosen, batch, dry_run)
        /\ IF dry_run
           THEN Returned("execute_combinations",
                         args @@ [chosen |-> chosen, batch |-> batch,
                                  status |-> <<>>, calls |-> <<>>],
                         EmptyDict)
           ELSE UNCHANGED <<op, ret, raised>>

\* one backend call for the i-th combination of the batch
BackendCall(i, outcome, client) ==
    [i |-> i, ok |-> outcome.ok,
     message |-> IF outcome.ok THEN "" ELSE outcome.message,
     client |-> client]

\* a backend call that is made again when it fails
RecordCallRetried(calls, i, outcome, client) ==
    IF outcome.ok THEN Append(calls, BackendCall(i, outcome, client))
    ELSE calls \o <<BackendCall(i, outcome, client), BackendCall(i, outcome, client)>>

\* response_text = client.generate(prompt, model_params): called once for a
\* combination, whatever the outcome
RecordCall(calls, i, outcome, client) == Append(calls, BackendCall(i, outcome, client))

\* one iteration of the for loop
ExecuteStep ==
    /\ exec.pc = "running"
    /\ exec.i <= Len(exec.batch)
    /\ clock < MaxClock
    /\ clock' = clock + 1
    /\ UNCHANGED <<registries, base_queries, variations, combinations,
                   evaluations, synthesized_ideas, uuid_next>>
    /\ LET combo == exec.batch[exec.i]
           got == _get_or_create_model_client(model_clients, model_configs,
                                              environ, combo.model)
           dom == get_domain(domain_manager, combo.domain)
           nkw == IF dom.ok THEN Len(dom.value.keywords) ELSE 0
       IN  \E outcome \in GenerateOutcomes,
              picks \in [1..3 -> 1..(IF nkw = 0 THEN 1 ELSE nkw)] :
             LET run == RunCombination(combo, exec.args.use_real_models, got,
                                       outcome, picks, clock)
                 use_api == exec.args.use_real_models /\ model_configs # <<>>
                 calls == IF run.called
                          THEN RecordCall(exec.calls, exec.i, outcome, got.value)
                          ELSE exec.calls
             IN  IF run.ok
                 THEN /\ results' = StoreResult(results, combo.id, run.result)
                      /\ model_clients' = IF use_api THEN got.clients
                                          ELSE model_clients
                      /\ exec' = [exec EXCEPT
                                    !.i = @ + 1,
                                    !.results = StoreResult(@, combo.id, run.result),
                                    !.status = Append(@, run.kind),
                                    !.calls = calls]
                      /\ UNCHANGED <<op, ret, raised>>
                 ELSE /\ UNCHANGED <<results, model_clients>>
                      /\ exec' = NoExec
                      /\ Raised("execute_combinations",
                                exec.args @@ [chosen |-> exec.chosen,
                                              batch |-> exec.batch,
                                              status |-> Append(exec.status, "raised"),
                                              calls |-> calls],
                                run.error)

\* the end of the for loop: return results
ExecuteReturn ==
    /\ exec.pc = "running"
    /\ exec.i > Len(exec.batch)
    /\ "caller" \notin DOMAIN exec
    /\ exec' = NoExec
    /\ Returned("execute_combinations",
                exec.args @@ [chosen |-> exec.chosen, batch |-> exec.batch,
                              status |-> exec.status,
                              calls |-> exec.calls],
                exec.results)
    /\ UNCHANGED <<registries, base_queries, variations, model_clients,
                   combinations, results, evaluations, synthesized_ideas,
                   uuid_next, clock>>

(***************************************************************************)
(* Scoring (evaluation_scoring.ScoringFramework, which main.py imports).   *)
(***************************************************************************)
Criteria == <<"novelty", "feasibility">>

Weight(criterion) == IF criterion = "novelty" THEN 2 ELSE 1

\* score_text: one number per criterion, a function of the text alone
score_text(text) ==
    <<[k |-> "novelty", v |-> Len(text) % 3],
      [k |-> "feasibility", v |-> IF text = <<>> THEN 0 ELSE Len(text[1]) % 2]>>

\* calculate_weighted_score: the weighted mean of the scores it is given
calculate_weighted_score(scores) ==
    LET total == SeqSum([i \in 1..Len(scores) |-> Weight(scores[i].k)])
    IN  IF total = 0 THEN 0
        ELSE SeqSum([i \in 1..Len(scores) |-> Weight(scores[i].k) * scores[i].v])
             \div total

(***************************************************************************)
(* evaluate_results and get_top_results (src/main.py).                     *)
(***************************************************************************)
RECURSIVE SelectSeq2(_, _)
\* [x for x in s if x.k in keep]
SelectSeq2(s, keep) ==
    IF s = <<>> THEN <<>>
    ELSE IF Head(s).k \in keep THEN <<Head(s)>> \o SelectSeq2(Tail(s), keep)
    ELSE SelectSeq2(Tail(s), keep)

\* scores filtered for storing, but "overall" weighted over all the scores
EvaluateOneOverAll(result, criteria) ==
    LET scores == score_text(result.response)
        kept == IF criteria # <<>> THEN SelectSeq2(scores, Range(criteria)) ELSE scores
    IN  DictSet(kept, "overall", calculate_weighted_score(scores))

\* the scores stored for one result: filtered, then "overall" added
EvaluateOne(result, criteria) ==
    LET scores == score_text(result.response)
        kept == IF criteria # <<>> THEN SelectSeq2(scores, Range(criteria)) ELSE scores
    IN  DictSet(kept, "overall", calculate_weighted_score(kept))

\* the for loop of evaluate_results: the local evaluations
EvaluateAll(rs, criteria) ==
    DictUpdate(EmptyDict,
               [i \in 1..Len(rs) |-> [k |-> rs[i].k, v |-> EvaluateOne(rs[i].v, criteria)]])

\* self.evaluations after a call that rebinds it to the local evaluations
EvaluationsRebound(evals, rs, criteria) == EvaluateAll(rs, criteria)

\* self.evaluations after the call: untouched by the early return, else one
\* self.evaluations[combo_id] = scores per result
EvaluationsAfter(evals, rs, criteria) ==
    IF rs = <<>> THEN evals ELSE DictUpdate(evals, EvaluateAll(rs, criteria))

EvaluateResults(results_arg, criteria) ==
    LET args == [results |-> results_arg, criteria |-> criteria]
        rs == IF results_arg # <<>> THEN results_arg ELSE results
    IN  /\ exec.pc = "idle"
        /\ clock < MaxClock
        /\ clock' = clock + 1
        /\ UNCHANGED <<registries, base_queries, variations, model_clients,
                       combinations, results, synthesized_ideas, uuid_next, exec>>
        /\ evaluations' = EvaluationsAfter(evaluations, rs, criteria)
        /\ Returned("evaluate_results", args,
                    IF rs = <<>> THEN EmptyDict ELSE EvaluateAll(rs, criteria))

\* a descending sort that puts x before the elements of its own score
InsertDescUnstable(sorted, x) ==
    LET notlarger == {i \in 1..Len(sorted) : sorted[i].score <= x.score}
        at == IF notlarger = {} THEN Len(sorted) + 1
              ELSE CHOOSE i \in notlarger : \A j \in notlarger : i <= j
    IN  SubSeq(sorted, 1, at - 1) \o <<x>> \o SubSeq(sorted, at, Len(sorted))

\* the list with x inserted before the first element of a smaller score
InsertDesc(sorted, x) ==
    LET smaller == {i \in 1..Len(sorted) : sorted[i].score < x.score}
        at == IF smaller = {} THEN Len(sorted) + 1
              ELSE CHOOSE i \in smaller : \A j \in smaller : i <= j
    IN  SubSeq(sorted, 1, at - 1) \o <<x>> \o SubSeq(sorted, at, Len(sorted))

RECURSIVE SortDescFrom(_, _)
SortDescFrom(sorted, rest) ==
    IF rest = <<>> THEN sorted
    ELSE SortDescFrom(InsertDesc(sorted, Head(rest)), Tail(rest))

\* list.sort(key=score, reverse=True): stable
SortDesc(s) == SortDescFrom(<<>>, s)

RECURSIVE ScoredResults(_, _, _)
\* the pairs (result, score), in the order of the evaluations
ScoredResults(evs, rs, criterion) ==
    IF evs = <<>> THEN <<>>
    ELSE LET e == Head(evs)
         IN  (IF DictHas(e.v, criterion) /\ DictHas(rs, e.k)
              THEN <<[result |-> DictGet(rs, e.k), score |-> DictGet(e.v, criterion)]>>
              ELSE <<>>)
             \o ScoredResults(Tail(evs), rs, criterion)

\* get_top_results as a function of the two stores
get_top_results(evs, rs, criterion, n) ==
    IF evs = <<>> \/ rs = <<>> THEN <<>>
    ELSE Prefix(SortDesc(ScoredResults(evs, rs, criterion)), n)

GetTopResults(criterion, n) ==
    /\ exec.pc = "idle"
    /\ Returned("get_top_results", [criterion |-> criterion, n |-> n],
                get_top_results(evaluations, results, criterion, n))
    /\ UNCHANGED <<registries, base_queries, variations, model_clients,
                   combinations, results, evaluations, synthesized_ideas,
                   uuid_next, clock, exec>>

(***************************************************************************)
(* synthesize_ideas (src/main.py).                                         *)
(***************************************************************************)
DefaultTopN == 10

\* len(line): the tokens of a line are one character apart
LineLen(line) ==
    IF line = <<>> THEN 0
    ELSE SeqSum([i \in 1..Len(line) |-> Len(line[i])]) + Len(line) - 1

\* next((line for line in lines if len(line) > 5 and len(line) < 80), default)
TitleCandidate(lines, default) ==
    LET fit == {i \in 1..Len(lines) : LineLen(lines[i]) > 5 /\ LineLen(lines[i]) < 80}
    IN  IF fit = {} THEN default
        ELSE lines[CHOOSE i \in fit : \A j \in fit : i <= j]

SourceCombinations(pairs) == [j \in 1..Len(pairs) |-> pairs[j].result.combination_id]

\* sum(score for _, score in pairs) / len(pairs), as a fraction
AverageScore(pairs) ==
    [num |-> SeqSum([j \in 1..Len(pairs) |-> pairs[j].score]), den |-> Len(pairs)]

\* three slices cut at n // 3 and 2 * (n // 3)
ClustersByThird(top_results) ==
    LET n == Len(top_results)
    IN  <<Slice(top_results, 0, n \div 3),
          Slice(top_results, n \div 3, 2 * (n \div 3)),
          Slice(top_results, 2 * (n \div 3), n)>>

\* the three slices of cluster_based
Clusters(top_results) ==
    LET n == Len(top_results)
    IN  <<Slice(top_results, 0, n \div 3),
          Slice(top_results, n \div 3, (2 * n) \div 3),
          Slice(top_results, (2 * n) \div 3, n)>>

\* the idea of cluster i
ClusterIdea(cluster, i, method) ==
    LET idea_id == <<"synthesized", "idea", NumStr(i)>>
        first == cluster[1].result.response
        default == <<"Synthesized Idea", NumStr(i)>>
        meta == [method |-> method, cluster_id |-> i, cluster_size |-> Len(cluster),
                 average_score |-> AverageScore(cluster)]
        description == <<"This idea represents a synthesis of", NumStr(Len(cluster)),
                         "top-ranked responses.">>
    IN  IF first # <<>>
        THEN [id |-> idea_id,
              title |-> TitleCandidate(first, default),
              description |-> description,
              source_combinations |-> SourceCombinations(cluster),
              text |-> first,
              metadata |-> meta]
        ELSE [id |-> idea_id,
              title |-> default,
              description |-> description,
              source_combinations |-> SourceCombinations(cluster),
              text |-> << <<"Synthesized text would extract the common themes of cluster",
                            NumStr(i)>> >>,
              metadata |-> meta]

RECURSIVE ClusterIdeas(_, _, _, _)
\* for i, cluster in enumerate(clusters, 1): the local dict synthesized
ClusterIdeas(clusters, i, method, synthesized) ==
    IF i > Len(clusters) THEN synthesized
    ELSE IF clusters[i] = <<>> THEN ClusterIdeas(clusters, i + 1, method, synthesized)
    ELSE LET idea == ClusterIdea(clusters[i], i, method)
         IN  ClusterIdeas(clusters, i + 1, method, DictSet(synthesized, idea.id, idea))

\* a crossover idea that credits the best result only
CrossoverIdeaOfBest(top_results, method) ==
    [id |-> <<"synthesized", "idea", "crossover">>,
     title |-> <<"Cross-Pollinated Innovation">>,
     description |-> <<"This idea combines elements from", NumStr(Len(top_results)),
                       "diverse top-ranked responses.">>,
     source_combinations |-> SourceCombinations(SubSeq(top_results, 1, 1)),
     text |-> << <<"Cross-pollinated text would combine complementary elements.">> >>,
     metadata |-> [method |-> method, sources_count |-> 1,
                   average_score |-> AverageScore(top_results)]]

CrossoverIdea(top_results, method) ==
    [id |-> <<"synthesized", "idea", "crossover">>,
     title |-> <<"Cross-Pollinated Innovation">>,
     description |-> <<"This idea combines elements from", NumStr(Len(top_results)),
                       "diverse top-ranked responses.">>,
     source_combinations |-> SourceCombinations(top_results),
     text |-> << <<"Cross-pollinated text would combine complementary elements.">> >>,
     metadata |-> [method |-> method, sources_count |-> Len(top_results),
                   average_score |-> AverageScore(top_results)]]

\* a choice of method in which every name but cluster_based cross-pollinates
SynthesizedByDefault(top_results, method) ==
    IF method = "cluster_based"
    THEN ClusterIdeas(Clusters(top_results), 1, method, EmptyDict)
    ELSE LET idea == CrossoverIdea(top_results, method)
         IN  DictSet(EmptyDict, idea.id, idea)

\* the local dict synthesized of one call on a non-empty list
Synthesized(top_results, method) ==
    IF method = "cluster_based"
    THEN ClusterIdeas(Clusters(top_results), 1, method, EmptyDict)
    ELSE IF method = "cross_pollination"
    THEN LET idea == CrossoverIdea(top_results, method)
         IN  DictSet(EmptyDict, idea.id, idea)
    ELSE EmptyDict

\* top_arg.given = FALSE is top_results=None
SynthesizeIdeas(top_arg, method) ==
    LET args == [top_results |-> top_arg, method |-> method]
        top_results == IF top_arg.given THEN top_arg.value
                       ELSE get_top_results(evaluations, results, "overall", DefaultTopN)
    IN  /\ exec.pc = "idle"
        /\ clock < MaxClock
        /\ clock' = clock + 1
        /\ UNCHANGED <<registries, base_queries, variations, model_clients,
                       combinations, results, evaluations, uuid_next, exec>>
        /\ IF top_results = <<>>
           THEN /\ Returned("synthesize_ideas", args, EmptyDict)
                /\ UNCHANGED synthesized_ideas
           ELSE /\ synthesized_ideas' =
                       DictUpdate(synthesized_ideas, Synthesized(top_results, method))
                /\ Returned("synthesize_ideas", args, Synthesized(top_results, method))

(***************************************************************************)
(* The calls a client of the application makes.                            *)
(***************************************************************************)
\* the strategies and phrasings the pipeline runs explore
PipelineChoices ==
    {[strategy |-> "constraint", phrasing |-> "with limited resources"],
     [strategy |-> "rephrased", phrasing |-> "-"]}

Generate ==
    \E query_id \in {<<"q", "urban">>, <<"q", "school">>},
       model_count \in 1..1, query_variations \in 0..0 :
        GenerateCombinations(PipelineChoices, query_id, << <<"domain", "urban">> >>,
                             model_count, 2, query_variations)

\* a combination that names a template no library holds
DanglingCombination ==
    Combination(<<"a">>, <<"gone">>, <<"q", "urban">>, <<"domain", "urban">>)

Execute ==
    \/ \E max_to_execute \in {Uncapped, Cap(0), Cap(1)}, use_real_models \in BOOLEAN :
         ExecuteStart(<<>>, max_to_execute, FALSE, use_real_models)
    \/ ExecuteStart(<<>>, Cap(1), TRUE, TRUE)
    \/ ExecuteStart(<<DanglingCombination>>, Uncapped, FALSE, TRUE)

\* results handed to evaluate_results by the caller, under an id of its own
OutsideResults ==
    <<[k |-> <<"outside">>,
       v |-> [combination_id |-> <<"outside">>,
              response |-> << <<"An idea from elsewhere">> >>]]>>

Evaluate ==
    \/ \E criteria \in {<<>>, <<"novelty">>} : EvaluateResults(<<>>, criteria)
    \/ EvaluateResults(OutsideResults, <<>>)

Synthesize ==
    \/ \E method \in {"cluster_based", "cross_pollination", "other"} :
          SynthesizeIdeas([given |-> FALSE], method)
    \/ SynthesizeIdeas([given |-> TRUE,
                        value |-> get_top_results(evaluations, results, "novelty", 1)],
                       "cluster_based")

Next ==
    \/ Generate
    \/ Execute
    \/ ExecuteStep
    \/ ExecuteReturn
    \/ Evaluate
    \/ Synthesize

Spec == Init /\ [][Next]_vars

(***************************************************************************)
(* save_state and load_state (src/main.py): the state as a JSON document.  *)
(***************************************************************************)
\* the values of a JSON document
JString(x) == [t |-> "string", s |-> x]
JNumber(x) == [t |-> "number", n |-> x]
JBool(x) == [t |-> "bool", b |-> x]
JArray(items) == [t |-> "array", items |-> items]
JObject(members) == [t |-> "object", members |-> members]

JMember(name, value) == [name |-> name, value |-> value]

HasMember(j, name) == \E i \in 1..Len(j.members) : j.members[i].name = name

\* the value json.load keeps for a name: the last member of that name
Member(j, name) ==
    LET at == {i \in 1..Len(j.members) : j.members[i].name = name}
    IN  j.members[CHOOSE i \in at : \A k \in at : k <= i].value

\* json.dump of a dict: an object with one member per entry, in order
DumpDict(d, dumped) ==
    JObject([i \in 1..Len(d) |-> JMember(d[i].k, dumped[i])])

\* json.load of an object: a dict with one entry per member name
LoadDict(j, loaded) ==
    DictUpdate(EmptyDict,
               [i \in 1..Len(j.members) |->
                   [k |-> j.members[i].name, v |-> loaded[i]]])

DumpCombination(c) ==
    JObject(<<JMember("id", JString(c.id)), JMember("model", JString(c.model)),
              JMember("template", JString(c.template)),
              JMember("query", JString(c.query)),
              JMember("domain", JString(c.domain))>>)

LoadCombination(j) ==
    [id |-> Member(j, "id").s, model |-> Member(j, "model").s,
     template |-> Member(j, "template").s, query |-> Member(j, "query").s,
     domain |-> Member(j, "domain").s]

DumpResultMetadata(m) ==
    JObject(<<JMember("model", JString(m.model)),
              JMember("template_style", JString(m.template_style)),
              JMember("timestamp", JNumber(m.timestamp))>>
            \o (IF "simulated" \in DOMAIN m
                THEN <<JMember("simulated", JBool(m.simulated))>>
                ELSE <<JMember("duration", JNumber(m.duration))>>))

LoadResultMetadata(j) ==
    IF HasMember(j, "simulated")
    THEN [model |-> Member(j, "model").s,
          template_style |-> Member(j, "template_style").s,
          timestamp |-> Member(j, "timestamp").n,
          simulated |-> Member(j, "simulated").b]
    ELSE [model |-> Member(j, "model").s,
          template_style |-> Member(j, "template_style").s,
          timestamp |-> Member(j, "timestamp").n,
          duration |-> Member(j, "duration").n]

DumpResult(r) ==
    JObject(<<JMember("combination_id", JString(r.combination_id)),
              JMember("prompt", JString(r.prompt)),
              JMember("response", JString(r.response)),
              JMember("metadata", DumpResultMetadata(r.metadata))>>)

LoadResult(j) ==
    [combination_id |-> Member(j, "combination_id").s,
     prompt |-> Member(j, "prompt").s,
     response |-> Member(j, "response").s,
     metadata |-> LoadResultMetadata(Member(j, "metadata"))]

DumpScores(e) == DumpDict(e, [m \in 1..Len(e) |-> JNumber(e[m].v)])
LoadScores(j) ==
    LoadDict(j, [m \in 1..Len(j.members) |-> Member(j, j.members[m].name).n])

DumpIdeaMetadata(m) ==
    JObject(<<JMember("method", JString(m.method))>>
            \o (IF "cluster_id" \in DOMAIN m
                THEN <<JMember("cluster_id", JNumber(m.cluster_id)),
                       JMember("cluster_size", JNumber(m.cluster_size))>>
                ELSE <<JMember("sources_count", JNumber(m.sources_count))>>)
            \o <<JMember("average_score", JNumber(m.average_score))>>)

LoadIdeaMetadata(j) ==
    IF HasMember(j, "cluster_id")
    THEN [method |-> Member(j, "method").s,
          cluster_id |-> Member(j, "cluster_id").n,
          cluster_size |-> Member(j, "cluster_size").n,
          average_score |-> Member(j, "average_score").n]
    ELSE [method |-> Member(j, "method").s,
          sources_count |-> Member(j, "sources_count").n,
          average_score |-> Member(j, "average_score").n]

DumpIdea(x) ==
    JObject(<<JMember("id", JString(x.id)), JMember("title", JString(x.title)),
              JMember("description", JString(x.description)),
              JMember("source_combinations",
                      JArray([i \in 1..Len(x.source_combinations) |->
                                 JString(x.source_combinations[i])])),
              JMember("text", JString(x.text)),
              JMember("metadata", DumpIdeaMetadata(x.metadata))>>)

LoadIdea(j) ==
    [id |-> Member(j, "id").s, title |-> Member(j, "title").s,
     description |-> Member(j, "description").s,
     source_combinations |->
         [i \in 1..Len(Member(j, "source_combinations").items) |->
             Member(j, "source_combinations").items[i].s],
     text |-> Member(j, "text").s,
     metadata |-> LoadIdeaMetadata(Member(j, "metadata"))]

\* json.dump(state, f): the document written for the four fields
DumpState(cs, rs, evs, ideas) ==
    JObject(<<JMember("combinations",
                      JArray([i \in 1..Len(cs) |-> DumpCombination(cs[i])])),
              JMember("results", DumpDict(rs, [m \in 1..Len(rs) |-> DumpResult(rs[m].v)])),
              JMember("evaluations", DumpDict(evs, [m \in 1..Len(evs) |-> DumpScores(evs[m].v)])),
              JMember("synthesized_ideas", DumpDict(ideas, [m \in 1..Len(ideas) |-> DumpIdea(ideas[m].v)]))>>)

\* load_state that keeps the ideas the application holds
LoadedStateKeepingIdeas(j) ==
    [combinations |->
        [i \in 1..Len(Member(j, "combinations").items) |->
            LoadCombination(Member(j, "combinations").items[i])],
     results |-> (LET o == Member(j, "results")
                IN  LoadDict(o, [m \in 1..Len(o.members) |->
                                    LoadResult(Member(o, o.members[m].name))])),
     evaluations |-> (LET o == Member(j, "evaluations")
                IN  LoadDict(o, [m \in 1..Len(o.members) |->
                                    LoadScores(Member(o, o.members[m].name))])),
     synthesized_ideas |-> synthesized_ideas]

\* state.get(name, default) for the four names of load_state
LoadedState(j) ==
    [combinations |->
        IF HasMember(j, "combinations")
        THEN [i \in 1..Len(Member(j, "combinations").items) |->
                 LoadCombination(Member(j, "combinations").items[i])]
        ELSE <<>>,
     results |-> IF HasMember(j, "results")
                 THEN (LET o == Member(j, "results")
                IN  LoadDict(o, [m \in 1..Len(o.members) |->
                                    LoadResult(Member(o, o.members[m].name))])) ELSE EmptyDict,
     evaluations |-> IF HasMember(j, "evaluations")
                     THEN (LET o == Member(j, "evaluations")
                IN  LoadDict(o, [m \in 1..Len(o.members) |->
                                    LoadScores(Member(o, o.members[m].name))]))
                     ELSE EmptyDict,
     synthesized_ideas |->
        IF HasMember(j, "synthesized_ideas")
        THEN (LET o == Member(j, "synthesized_ideas")
                IN  LoadDict(o, [m \in 1..Len(o.members) |->
                                    LoadIdea(Member(o, o.members[m].name))])) ELSE EmptyDict]

SaveState ==
    /\ exec.pc = "idle"
    /\ state_file' = [exists |-> TRUE,
                      json |-> DumpState(combinations, results, evaluations,
                                         synthesized_ideas),
                      \* for the properties: the four fields as they were saved
                      saved |-> [combinations |-> combinations,
                                 results |-> results,
                                 evaluations |-> evaluations,
                                 synthesized_ideas |-> synthesized_ideas]]
    /\ Returned("save_state", [state_path |-> "state.json"], None)
    /\ UNCHANGED <<model_configs, template_library, domain_manager, environ,
                   base_queries, variations, model_clients, combinations, results,
                   evaluations, synthesized_ideas, uuid_next, clock, exec>>

LoadState ==
    /\ exec.pc = "idle"
    /\ UNCHANGED <<registries, base_queries, variations, model_clients,
                   uuid_next, clock, exec>>
    /\ IF ~state_file.exists
       THEN /\ Raised("load_state", [state_path |-> "state.json"], "FileNotFoundError")
            /\ UNCHANGED <<combinations, results, evaluations, synthesized_ideas>>
       ELSE /\ combinations' = LoadedState(state_file.json).combinations
            /\ results' = LoadedState(state_file.json).results
            /\ evaluations' = LoadedState(state_file.json).evaluations
            /\ synthesized_ideas' = LoadedState(state_file.json).synthesized_ideas
            /\ Returned("load_state", [state_path |-> "state.json"], None)

\* the steps of run_complete_pipeline, each with its default arguments
RunPipeline ==
    \/ Generate
    \/ ExecuteStart(<<>>, Uncapped, FALSE, TRUE)
    \/ ExecuteStep
    \/ ExecuteReturn
    \/ EvaluateResults(<<>>, <<>>)
    \/ \E method \in {"cluster_based", "cross_pollination"} :
          SynthesizeIdeas([given |-> FALSE], method)

NextState ==
    \/ RunPipeline
    \/ SaveState
    \/ LoadState

SpecState == Init /\ [][NextState]_vars

(***************************************************************************)
(* generate_combinations on its own, over the arguments a caller can pass. *)
(***************************************************************************)
MaxGenerate == 2     \* generate_combinations calls in one behaviour

GenerateAny ==
    /\ clock < MaxGenerate
    /\ \E query_id \in {<<"q", "urban">>, <<"q", "school">>, <<"q", "none">>},
          domain_ids \in {<<>>,
                          << <<"domain", "urban">> >>,
                          << <<"domain", "urban">>, <<"domain", "education">> >>,
                          << <<"domain", "urban">>, <<"domain", "urban">> >>,
                          << <<"domain", "none">> >>},
          model_count \in 1..2, instruction_count \in 1..2,
          query_variations \in 0..2 :
           GenerateCombinations(PipelineChoices, query_id, domain_ids, model_count,
                                instruction_count, query_variations)

SpecGenerate == Init /\ [][GenerateAny]_vars

(***************************************************************************)
(* synthesize_ideas on a list the caller passes, first call of a fresh     *)
(* application.                                                            *)
(***************************************************************************)
MaxTop == 9          \* pairs in the list handed to synthesize_ideas

\* n (result, score) pairs in descending order of score, the first k of
\* score 1; every result carries the same response text
TopList(n, k, response) ==
    [j \in 1..n |->
        [result |-> [combination_id |-> <<"c", NumStr(j)>>, response |-> response],
         score |-> IF j <= k THEN 1 ELSE 0]]

\* response texts: empty; a short first line; a first line of 5 characters;
\* a first line of 80 characters; one line of 5 characters only
ResponseTexts ==
    LET Line80 == <<"A network of protected bike lanes that links every school and every clinic in to">>
    IN
    {<<>>,
     << <<"Idea">>, <<"Protected bike lanes">> >>,
     << <<"Ideas">>, <<"Protected bike lanes">> >>,
     << Line80, <<"Protected bike lanes">> >>,
     << <<"Ideas">> >>}

SynthesizeGiven ==
    /\ op.name = "init"
    /\ \E n \in 0..MaxTop, method \in {"cluster_based", "cross_pollination", "other"},
          response \in ResponseTexts :
         \E k \in 0..n :
            SynthesizeIdeas([given |-> TRUE, value |-> TopList(n, k, response)], method)

SpecSynth == Init /\ [][SynthesizeGiven]_vars

(***************************************************************************)
(* get_top_results over stores of evaluations and results.                 *)
(***************************************************************************)
MaxRanked == 3       \* combinations that have an evaluation

RankedId(j) == <<"c", NumStr(j)>>

\* what evaluate_results stores for one result: the kept criteria, then overall
StoredScores ==
    {<<[k |-> "overall", v |-> o]>> : o \in 0..1}
    \cup {<<[k |-> "novelty", v |-> nv], [k |-> "overall", v |-> o]>> :
             nv \in 0..1, o \in 0..1}

\* evaluations of the first m combinations
EvaluationStores ==
    UNION {{[j \in 1..m |-> [k |-> RankedId(j), v |-> f[j]]] :
               f \in [1..m -> StoredScores]} : m \in 0..MaxRanked}

\* results of the combinations from..MaxRanked, stored last first
ResultStore(from) ==
    [j \in 1..(MaxRanked - from + 1) |->
        [k |-> RankedId(MaxRanked - j + 1),
         v |-> [combination_id |-> RankedId(MaxRanked - j + 1),
                response |-> << <<"Idea", NumStr(MaxRanked - j + 1)>> >>]]]

InitRank ==
    /\ model_configs = <<>>
    /\ template_library = DefaultLibrary
    /\ environ = {}
    /\ domain_manager = DefaultDomains
    /\ base_queries = DefaultQueries
    /\ variations = [i \in 1..Len(DefaultQueries) |->
                        [k |-> DefaultQueries[i].k, v |-> <<>>]]
    /\ model_clients = EmptyDict
    /\ combinations = <<>>
    /\ results \in {ResultStore(1), ResultStore(2), EmptyDict}
    /\ evaluations \in EvaluationStores
    /\ synthesized_ideas = EmptyDict
    /\ uuid_next = 0
    /\ clock = 0
    /\ exec = NoExec
    /\ op = [name |-> "init"]
    /\ ret = None
    /\ raised = "none"
    /\ state_file = NoFile

Rank ==
    \E criterion \in {"overall", "novelty", "feasibility"},
       n \in {-1, 0, 1, 2, DefaultTopN} :
        GetTopResults(criterion, n)

SpecRank == InitRank /\ [][Rank]_vars

(***************************************************************************)
(* InstructionTemplate.format on its own, over templates and variables.    *)
(***************************************************************************)
MaxParts == 3        \* literal and placeholder parts of a template

\* the template strings of up to MaxParts parts
TemplateStrings ==
    LET parts == {Lit("As an expert in"), Ph("domain"), Ph("extra"), Ph("focus")}
    IN  UNION {[1..n -> parts] : n \in 1..MaxParts}

\* the variable mappings a caller can pass
VariableMappings ==
    LET all == [domain |-> "the design of cities", extra |-> "next decade",
                focus |-> "future preparation"]
    IN  {[x \in D |-> all[x]] : D \in SUBSET (DOMAIN all)}

\* one call of template.format(variables) on a fresh application
FormatTemplate ==
    /\ op.name = "init"
    /\ \E template \in TemplateStrings, variables \in VariableMappings :
         LET t == InstructionTemplate(<<"t">>, "Tried", template,
                                      [cognitive_style |-> "plain"])
             formatted == Format(t, variables)
         IN  /\ op' = [name |-> "format",
                       args |-> [template |-> t, variables |-> variables]]
             /\ IF formatted.ok
                THEN /\ ret' = formatted.text
                     /\ raised' = "none"
                ELSE \* f"Missing required variable '{missing_key}' for ..."
                     /\ ret' = <<"Missing required variable", formatted.missing_key,
                                 "for template", formatted.template>>
                     /\ raised' = formatted.error
    /\ UNCHANGED <<registries, base_queries, variations, model_clients,
                   combinations, results, evaluations, synthesized_ideas,
                   uuid_next, clock, exec>>

SpecFormat == Init /\ [][FormatTemplate]_vars

(***************************************************************************)
(* AnthropicClient.generate and OpenAIClient.generate on one HTTP exchange *)
(* (src/model_api_integration.py).                                         *)
(***************************************************************************)
JNull == [t |-> "null"]

\* a value, or the exception an expression raised
Value(v) == [ok |-> TRUE, value |-> v]
Exception(type, message) == [ok |-> FALSE, error |-> type, message |-> message]

\* x[key] for a str key: a dict gives the member or KeyError, a list or a str
\* TypeError (indices must be integers), None, numbers and booleans TypeError
\* (not subscriptable)
GetItem(x, key) ==
    IF x.t = "object"
    THEN IF HasMember(x, key) THEN Value(Member(x, key))
         ELSE Exception("KeyError", key)
    ELSE Exception("TypeError", x.t)

\* x[0]: a list gives its first item or IndexError, a dict KeyError (its keys
\* are str), a str its first character or IndexError, anything else TypeError
GetFirst(x) ==
    IF x.t = "array"
    THEN IF x.items # <<>> THEN Value(x.items[1])
         ELSE Exception("IndexError", "list index out of range")
    ELSE IF x.t = "object" THEN Exception("KeyError", "0")
    ELSE IF x.t = "string"
    THEN IF x.s # "" THEN Value(JString("first character"))
         ELSE Exception("IndexError", "string index out of range")
    ELSE Exception("TypeError", x.t)

\* x.get(key, default): only a dict has get
Get(x, key, default) ==
    IF x.t = "object"
    THEN Value(IF HasMember(x, key) THEN Member(x, key) ELSE default)
    ELSE Exception("AttributeError", "get")

\* requests.post raised before any response arrived
TransportFailure == [arrived |-> FALSE]

\* a response: its status code and its body, parsed by response.json() or not
Response(status_code, body) ==
    [arrived |-> TRUE, status_code |-> status_code, body |-> body]
Unparseable == [parses |-> FALSE]
Parsed(j) == [parses |-> TRUE, json |-> j]

\* _handle_error: always raises; the except clause covers response.json()
\* (ValueError) and nothing that the two get calls raise
_handle_error(response) ==
    IF ~response.body.parses
    THEN Exception("APIIntegrationError", "API error: status code and text")
    ELSE LET error_data == response.body.json
             error == Get(error_data, "error", JObject(<<>>))
         IN  IF ~error.ok THEN error
             ELSE LET error_message == Get(error.value, "message",
                                           JString("Unknown API error"))
                  IN  IF ~error_message.ok THEN error_message
                      ELSE Exception("APIIntegrationError", error_message.value)

\* the except clauses of generate: requests.RequestException, and KeyError,
\* IndexError, ValueError become APIIntegrationError; the rest passes
ExceptClauses(outcome, provider) ==
    IF outcome.ok THEN outcome
    ELSE IF outcome.error = "RequestException"
    THEN Exception("APIIntegrationError", <<"Request failed", provider>>)
    ELSE IF outcome.error \in {"KeyError", "IndexError", "ValueError"}
    THEN Exception("APIIntegrationError", <<"Failed to parse", provider>>)
    ELSE outcome

\* response_data["content"][0]["text"]
AnthropicPath(response_data) ==
    LET content == GetItem(response_data, "content")
    IN  IF ~content.ok THEN content
        ELSE LET first == GetFirst(content.value)
             IN  IF ~first.ok THEN first ELSE GetItem(first.value, "text")

\* response_data["choices"][0]["message"]["content"]
OpenAIPath(response_data) ==
    LET choices == GetItem(response_data, "choices")
    IN  IF ~choices.ok THEN choices
        ELSE LET first == GetFirst(choices.value)
             IN  IF ~first.ok THEN first
                 ELSE LET message == GetItem(first.value, "message")
                      IN  IF ~message.ok THEN message
                          ELSE GetItem(message.value, "content")

\* the try block of generate: post, the status test, json(), the path
TryBlock(provider, response) ==
    IF ~response.arrived THEN Exception("RequestException", "connection failed")
    ELSE IF response.status_code # 200 THEN _handle_error(response)
    ELSE IF ~response.body.parses THEN Exception("ValueError", "not JSON")
    ELSE IF provider = "anthropic" THEN AnthropicPath(response.body.json)
    ELSE OpenAIPath(response.body.json)

\* AnthropicClient.generate / OpenAIClient.generate on the exchange
generate(provider, response) == ExceptClauses(TryBlock(provider, response), provider)

\* the documents a backend, a proxy or a gateway answers with
Bodies ==
    LET Text == JString("Protected bike lanes")
    IN
    {JNull, JString("Bad Gateway"), JString(""), JNumber(0), JArray(<<>>),
     JArray(<<JObject(<<JMember("text", Text)>>)>>),
     JObject(<<>>),
     JObject(<<JMember("error", JObject(<<JMember("message", JString("Overloaded"))>>))>>),
     JObject(<<JMember("error", JObject(<<JMember("type", JString("overloaded_error"))>>))>>),
     JObject(<<JMember("error", JString("Overloaded"))>>),
     JObject(<<JMember("error", JNull)>>),
     JObject(<<JMember("message", JString("Forbidden"))>>),
     JObject(<<JMember("content", JArray(<<JObject(<<JMember("text", Text)>>)>>))>>),
     JObject(<<JMember("content", JArray(<<JObject(<<JMember("type", JString("tool_use"))>>)>>))>>),
     JObject(<<JMember("content", JArray(<<Text>>))>>),
     JObject(<<JMember("content", JArray(<<JNull>>))>>),
     JObject(<<JMember("content", JArray(<<>>))>>),
     JObject(<<JMember("content", JObject(<<JMember("text", Text)>>))>>),
     JObject(<<JMember("content", Text)>>),
     JObject(<<JMember("content", JNull)>>),
     JObject(<<JMember("choices",
        JArray(<<JObject(<<JMember("message", JObject(<<JMember("content", Text)>>))>>)>>))>>),
     JObject(<<JMember("choices",
        JArray(<<JObject(<<JMember("message", JObject(<<JMember("role", JString("assistant"))>>))>>)>>))>>),
     JObject(<<JMember("choices", JArray(<<JObject(<<JMember("message", JNull)>>)>>))>>),
     JObject(<<JMember("choices", JArray(<<JObject(<<JMember("text", Text)>>)>>))>>),
     JObject(<<JMember("choices", JArray(<<>>))>>),
     JObject(<<JMember("choices", JNull)>>)}

\* the exchanges: no response, or a status code with a body
Responses ==
    LET status_codes == {200, 400, 429, 500}
    IN  {TransportFailure}
        \cup {Response(status_code, Unparseable) : status_code \in status_codes}
        \cup {Response(status_code, Parsed(j)) :
                  status_code \in status_codes, j \in Bodies}

\* one call of client.generate on a fresh application
GenerateCall ==
    /\ op.name = "init"
    /\ \E provider \in {"anthropic", "openai"}, response \in Responses :
         LET outcome == generate(provider, response)
         IN  /\ op' = [name |-> "generate",
                       args |-> [provider |-> provider, response |-> response]]
             /\ IF outcome.ok
                THEN /\ ret' = outcome.value
                     /\ raised' = "none"
                ELSE /\ ret' = None
                     /\ raised' = outcome.error
    /\ UNCHANGED <<registries, base_queries, variations, model_clients,
                   combinations, results, evaluations, synthesized_ideas,
                   uuid_next, clock, exec>>

SpecBackend == Init /\ [][GenerateCall]_vars

(***************************************************************************)
(* A batch that is stopped: by an error on a later combination, or by the  *)
(* end of the process, after which main() builds a new application and may *)
(* load the state file.                                                    *)
(***************************************************************************)
\* a batch whose second combination names a template no library holds
ExecuteBroken ==
    /\ combinations # <<>>
    /\ ExecuteStart(<<combinations[1], DanglingCombination>>, Uncapped, FALSE, TRUE)

\* the process ends while a batch is running: what the application held in
\* memory is gone, the state file is what the last save_state wrote; the next
\* process starts from ISEEApplication()
Terminate ==
    /\ exec.pc = "running"
    /\ op' = [name |-> "terminated",
              args |-> [processed |-> [j \in 1..(exec.i - 1) |-> exec.batch[j].id]]]
    /\ ret' = None
    /\ raised' = "none"
    /\ exec' = NoExec
    /\ model_clients' = EmptyDict
    /\ combinations' = <<>>
    /\ results' = EmptyDict
    /\ evaluations' = EmptyDict
    /\ synthesized_ideas' = EmptyDict
    /\ variations' = [i \in 1..Len(DefaultQueries) |->
                         [k |-> DefaultQueries[i].k, v |-> <<>>]]
    /\ UNCHANGED <<registries, base_queries, uuid_next, clock>>

NextStopped ==
    \/ Generate
    \/ ExecuteStart(<<>>, Uncapped, FALSE, TRUE)
    \/ ExecuteBroken
    \/ ExecuteStep
    \/ ExecuteReturn
    \/ SaveState
    \/ LoadState
    \/ Terminate

SpecStopped == Init /\ [][NextStopped]_vars

(***************************************************************************)
(* run_complete_pipeline (src/main.py): a new query, generation, execution *)
(* of what was generated, evaluation of what was executed, the top results *)
(* and their synthesis.  The execution loop runs in the steps of           *)
(* ExecuteStep; PipelineStart is the part before the loop, PipelineFinish  *)
(* the part after it.                                                      *)
(***************************************************************************)
\* query in text.lower(), for the names searched for
Within(query, text) ==
    \/ query = "urban" /\ text = "Urban Planning"
    \/ query = "learning" /\ text = "the systems of learning"
    \/ query = "transport" /\ text = "transport"

\* DomainManager.search_domains: name, then description, then keywords
search_domains(mgr, query) ==
    SelectSeq(DictValues(mgr),
              LAMBDA d : \/ Within(query, d.name)
                         \/ Within(query, d.description)
                         \/ \E i \in 1..Len(d.keywords) : Within(query, d.keywords[i]))

\* steps 1 to 4 of the pipeline, up to the entry of the execution loop
PipelineStart(query_text, domain_name, model_count, instruction_count, query_variations, max_combinations, use_real_models) ==
    LET query_id == <<"query", Uuid(uuid_next)>>
        query == Query(query_id, query_text, <<>>)
        matching_domains == IF domain_name.given
                            THEN search_domains(domain_manager, domain_name.value)
                            ELSE <<>>
        configured == [i \in 1..Len(model_configs) |-> model_configs[i].k]
        all_templates == list_templates(template_library)
        args == [combinations |-> <<>>, max_to_execute |-> max_combinations,
                 dry_run |-> FALSE, use_real_models |-> use_real_models]
    IN
    /\ exec.pc = "idle"
    /\ clock < MaxClock
    /\ clock' = clock + 1
    /\ base_queries' = DictSet(base_queries, query_id, query)
    /\ \E created \in _create_variations(PipelineChoices, query, query_variations,
                                         uuid_next + 1),
          models \in (IF model_configs # <<>>
                      THEN (IF model_count < Len(configured)
                            THEN Sample(configured, model_count)
                            ELSE {configured})
                      ELSE {PlaceholderModels(model_count)}),
          templates \in (IF Len(all_templates) > instruction_count
                         THEN Sample(all_templates, instruction_count)
                         ELSE {all_templates}) :
         LET all_queries == <<query>> \o created.variations
             domains == IF matching_domains # <<>> THEN matching_domains
                        ELSE list_domains(domain_manager)
             combos == Product(models, templates, all_queries, domains)
             capped == /\ max_combinations.given
                       /\ max_combinations.value # 0
                       /\ Len(combos) > max_combinations.value
             batch == IF capped THEN Prefix(combos, max_combinations.value)
                      ELSE combos
         IN  /\ uuid_next + 1 + created.attempts <= MaxUuid
             /\ uuid_next' = uuid_next + 1 + created.attempts
             /\ variations' = DictSet(variations, query_id, created.variations)
             /\ Len(batch) <= MaxBatch
             /\ combinations' = StoreCombinations(combinations, combos)
             /\ exec' = ExecStarted(args @@ [combinations |-> combos], combos, batch)
                           @@ [caller |-> "run_complete_pipeline"]
             /\ Returned("generate_combinations",
                         [query_id |-> query_id, model_count |-> model_count,
                          instruction_count |-> instruction_count,
                          query_variations |-> query_variations],
                         combos)
    /\ UNCHANGED <<registries, model_clients, results, evaluations,
                   synthesized_ideas>>

\* steps 5 to 8 of the pipeline, after the loop: evaluate_results on what the
\* loop returned, get_top_results(n=min(10, len(evaluations))) over the
\* stores, synthesize_ideas on those; the ideas are what format_output renders
PipelineFinish ==
    /\ exec.pc = "running"
    /\ exec.i > Len(exec.batch)
    /\ "caller" \in DOMAIN exec
    /\ LET rs == IF exec.results # <<>> THEN exec.results ELSE results
           returned == IF rs = <<>> THEN EmptyDict ELSE EvaluateAll(rs, <<>>)
           evs == EvaluationsAfter(evaluations, rs, <<>>)
           top_results == get_top_results(evs, results, "overall",
                                          Min(DefaultTopN, Len(returned)))
           synthesized == IF top_results = <<>> THEN EmptyDict
                          ELSE Synthesized(top_results, "cluster_based")
       IN  /\ evaluations' = evs
           /\ synthesized_ideas' = DictUpdate(synthesized_ideas, synthesized)
           /\ Returned("run_complete_pipeline",
                       [executed |-> [j \in 1..Len(exec.batch) |-> exec.batch[j].id],
                        results |-> exec.results,
                        evaluated |-> returned,
                        top_results |-> top_results],
                       synthesized)
    /\ exec' = NoExec
    /\ UNCHANGED <<registries, base_queries, variations, model_clients,
                   combinations, results, uuid_next, clock>>

\* the pipeline as the command line runs it, for a domain name or none
RunCompletePipeline ==
    \E domain_name \in {[given |-> FALSE], [given |-> TRUE, value |-> "urban"],
                        [given |-> TRUE, value |-> "quantum"]},
       instruction_count \in 0..1, max_combinations \in {Cap(1), Cap(10)},
       use_real_models \in BOOLEAN :
        PipelineStart(<<"How might we", "improve urban transportation", "?">>,
                      domain_name, 1, instruction_count, 0, max_combinations,
                      use_real_models)

NextPipeline ==
    \/ RunCompletePipeline
    \/ ExecuteStep
    \/ PipelineFinish

SpecPipeline == Init /\ [][NextPipeline]_vars

(***************************************************************************)
(* QueryGenerator.generate_variations on its own (src/query_generator.py). *)
(***************************************************************************)
MaxCount == 2        \* the count asked of generate_variations

\* the outcomes of random.choice explored: two phrasings of one strategy, a
\* strategy that always gives the same text, and a third strategy
VariationChoices ==
    {[strategy |-> "constraint", phrasing |-> "with limited resources"],
     [strategy |-> "constraint", phrasing |-> "within a tight budget"],
     [strategy |-> "rephrased", phrasing |-> "-"],
     [strategy |-> "perspective", phrasing |-> "from the perspective of end users"]}

\* one call of generate_variations(query_id, count) on a fresh generator
GenerateVariations ==
    /\ op.name = "init"
    /\ \E query_id \in {<<"q", "urban">>, <<"q", "school">>, <<"q", "none">>},
          count \in 0..MaxCount :
         LET args == [query_id |-> query_id, count |-> count]
         IN  IF ~DictHas(base_queries, query_id)
             THEN /\ Raised("generate_variations", args, "KeyError")
                  /\ UNCHANGED <<variations, uuid_next>>
             ELSE \E created \in _create_variations(VariationChoices,
                                                    DictGet(base_queries, query_id),
                                                    count, uuid_next) :
                    /\ variations' = DictSet(variations, query_id,
                                         DictGet(variations, query_id)
                                            \o created.variations)
                    /\ uuid_next' = uuid_next + created.attempts
                    /\ Returned("generate_variations",
                                args @@ [attempts |-> created.attempts],
                                created.variations)
    /\ UNCHANGED <<registries, base_queries, model_clients, combinations,
                   results, evaluations, synthesized_ideas, clock, exec>>

SpecVariations == Init /\ [][GenerateVariations]_vars

(***************************************************************************)
(* Properties.                                                             *)
(***************************************************************************)
\* the last transition was one whole call of the named operation
Called(name) ==
    /\ exec.pc = "idle"
    /\ exec'.pc = "idle"
    /\ clock' = clock + 1
    /\ op'.name = name

\* the state is the one an iteration of the execute_combinations loop has
\* just left, having stored a result
Stepped == exec.pc = "running" /\ exec.i > 1

\* the combination of that iteration
SteppedCombination == exec.batch[exec.i - 1]

\* tok occurs in the text
TextContains(text, tok) ==
    \E i \in 1..Len(text) : \E j \in 1..Len(text[i]) : text[i][j] = tok

\* C1: a generate_combinations call that returns, returns b*t*q*d
\* combinations (b backends, t templates, q queries, d domains selected), and
\* no two of the combinations it returns have the same identifier.
C1_ProductWithDistinctIds ==
    (op.name = "generate_combinations" /\ raised = "none") =>
        /\ Len(ret) = Len(op.args.models) * Len(op.args.templates)
                      * Len(op.args.all_queries) * Len(op.args.domains)
        /\ \A i, j \in 1..Len(ret) : ret[i].id = ret[j].id => i = j

\* C2: an execute_combinations call that ran its batch raised nothing to the
\* caller, whatever failed for one combination, and every combination of the
\* batch has a stored Result once the call is over.
C2_FailureIsolated ==
    (op.name = "execute_combinations" /\ ~op.args.dry_run) =>
        /\ raised = "none"
        /\ \A i \in 1..Len(op.args.batch) : DictHas(results, op.args.batch[i].id)

\* the calls of client.generate that failed, in a log of such calls
FailedCalls(calls) == {j \in 1..Len(calls) : ~calls[j].ok}

\* C3: a backend error of client.generate is not raised to the caller: the
\* iteration stores a Result whose response is the prefixed error message and
\* the loop goes on to the next combination; if the call does raise, it is not
\* at a combination whose client.generate was called, and if it returns, every
\* combination of the batch was executed.
C3_BackendErrorRecorded ==
    /\ (Stepped /\ exec.calls # <<>> /\ exec.calls[Len(exec.calls)].i = exec.i - 1
        /\ ~exec.calls[Len(exec.calls)].ok) =>
          /\ exec.status[exec.i - 1] = "api_error"
          /\ DictHas(results, SteppedCombination.id)
          /\ DictGet(results, SteppedCombination.id).response
               = << <<"Error generating response:",
                      exec.calls[Len(exec.calls)].message>> >>
          /\ DictGet(exec.results, SteppedCombination.id)
               = DictGet(results, SteppedCombination.id)
    /\ (op.name = "execute_combinations" /\ FailedCalls(op.args.calls) # {}) =>
          /\ \A j \in FailedCalls(op.args.calls) :
                op.args.status[op.args.calls[j].i] = "api_error"
          /\ raised # "none" =>
                \A j \in 1..Len(op.args.calls) :
                    op.args.calls[j].i # Len(op.args.status)
          /\ raised = "none" =>
                /\ Len(op.args.status) = Len(op.args.batch)
                /\ \A i \in 1..Len(op.args.batch) : DictHas(ret, op.args.batch[i].id)

\* a call returned whose first combination met a backend error and whose
\* second combination was executed after it
C3_Witness ==
    /\ op.name = "execute_combinations"
    /\ raised = "none"
    /\ Len(op.args.batch) = 2
    /\ op.args.calls # <<>>
    /\ op.args.calls[1].i = 1
    /\ ~op.args.calls[1].ok
    /\ Len(op.args.status) = 2
    /\ op.args.status[1] = "api_error"

\* C4: the result store never holds two entries for one combination id, and
\* right after a combination is executed the entry of its id is the Result of
\* this execution (the one the call returns, stamped with the time of the
\* execution), also when the id had a Result before.
C4_OneResultPerId ==
    /\ NoDuplicateKeys(results)
    /\ Stepped =>
          /\ Cardinality({i \in 1..Len(results) :
                            results[i].k = SteppedCombination.id}) = 1
          /\ DictGet(results, SteppedCombination.id)
               = DictGet(exec.results, SteppedCombination.id)
          /\ DictGet(results, SteppedCombination.id).metadata.timestamp = clock - 1
          /\ DictGet(results, SteppedCombination.id).combination_id
               = SteppedCombination.id
          /\ DictKeys(exec.results) \subseteq DictKeys(results)

\* a combination was executed, evaluated and has just been executed again
C4_Witness ==
    /\ Stepped
    /\ exec.i = 2
    /\ DictHas(evaluations, exec.batch[1].id)
    /\ Len(results) = 1

\* the cases in which no usable client exists for a backend id
NoConfiguration(model_id) == ~DictHas(model_configs, model_id)

ProviderOf(model_id) ==
    LET cfg == DictGet(model_configs, model_id)
    IN  IF cfg.provider # "" THEN LowerName(cfg.provider)
        ELSE IF cfg.name = "Claude 3" THEN "anthropic"
        ELSE IF cfg.name = "gpt-4" THEN "openai"
        ELSE "undetermined"

NoUsableClient(model_id) ==
    \/ NoConfiguration(model_id)
    \/ ProviderOf(model_id) = "undetermined"
    \/ ProviderOf(model_id) \notin {"anthropic", "openai"}
    \/ ProviderOf(model_id) \notin environ

\* C5: when a combination has just been executed and no usable client exists
\* for its backend, the stored Result is simulated: its metadata has
\* simulated = true and its response contains the name of the domain.
C5_SimulatedWithoutClient ==
    (Stepped /\ NoUsableClient(SteppedCombination.model)) =>
        LET r == DictGet(results, SteppedCombination.id)
        IN  /\ "simulated" \in DOMAIN r.metadata
            /\ r.metadata.simulated
            /\ TextContains(r.response,
                            DictGet(domain_manager, SteppedCombination.domain).name)

\* real backends were asked for, the backend is configured, and its client
\* could not be constructed
C5_Witness ==
    /\ Stepped
    /\ exec.args.use_real_models
    /\ DictHas(model_configs, SteppedCombination.model)
    /\ NoUsableClient(SteppedCombination.model)

\* C6: a synthesize_ideas call that produces ideas stores them under
\* identifiers the collection did not hold: the ideas already in the
\* collection stay, and the collection grows by the number of ideas produced.
C6_IdeasAccumulate ==
    [][(Called("synthesize_ideas") /\ ret' # <<>>) =>
          /\ DictKeys(ret') \cap DictKeys(synthesized_ideas) = {}
          /\ \A i \in 1..Len(synthesized_ideas) :
                \E j \in 1..Len(synthesized_ideas') :
                    synthesized_ideas'[j] = synthesized_ideas[i]
          /\ Len(synthesized_ideas') = Len(synthesized_ideas) + Len(ret')]_vars

\* the three index ranges of a list of n pairs, as pairs of 0-based bounds
ThirdRanges(n) ==
    <<[lo |-> 0, hi |-> n \div 3],
      [lo |-> n \div 3, hi |-> (2 * n) \div 3],
      [lo |-> (2 * n) \div 3, hi |-> n]>>

\* C7: cluster_based synthesis of n >= 1 pairs returns one idea per non-empty
\* range among [0, n div 3), [n div 3, 2n div 3), [2n div 3, n), in that
\* order, whose source_combinations are the combination ids of the range in
\* order: three ideas for n = 9, at most two for n = 2.
C7_ClusterRanges ==
    (/\ op.name = "synthesize_ideas"
     /\ op.args.method = "cluster_based"
     /\ op.args.top_results.given
     /\ Len(op.args.top_results.value) >= 1) =>
        LET top == op.args.top_results.value
            n == Len(top)
            rg == ThirdRanges(n)
            nonempty == {g \in 1..3 : rg[g].hi > rg[g].lo}
            ids(g) == [j \in 1..(rg[g].hi - rg[g].lo) |->
                          top[rg[g].lo + j].result.combination_id]
        IN  /\ Len(ret) = Cardinality(nonempty)
            /\ \A g \in nonempty :
                  \E i \in 1..Len(ret) :
                     /\ ret[i].v.metadata.cluster_id = g
                     /\ ret[i].v.source_combinations = ids(g)
                     /\ i = Cardinality({h \in nonempty : h <= g})
            /\ n = 9 => Len(ret) = 3
            /\ n = 2 => Len(ret) <= 2

\* nine pairs gave three ideas of three sources each
C7_Witness ==
    /\ op.name = "synthesize_ideas"
    /\ op.args.method = "cluster_based"
    /\ op.args.top_results.given
    /\ Len(op.args.top_results.value) = 9
    /\ Len(ret) = 3
    /\ \A i \in 1..3 : Len(ret[i].v.source_combinations) = 3

\* C8: get_top_results(criterion, n) returns at most n items, and the
\* evaluation stored for every result it returns contains the criterion.
C8_AtMostN ==
    op.name = "get_top_results" =>
        /\ Len(ret) <= op.args.n
        /\ \A i \in 1..Len(ret) :
              /\ DictHas(evaluations, ret[i].result.combination_id)
              /\ DictHas(DictGet(evaluations, ret[i].result.combination_id),
                         op.args.criterion)

\* C9: the items get_top_results returns are in non-increasing order of the
\* criterion's score, and of two items of equal score the one whose
\* evaluation comes first in the evaluations mapping comes first.
C9_DescendingStable ==
    op.name = "get_top_results" =>
        \A i, j \in 1..Len(ret) :
            i < j =>
              /\ ret[i].score >= ret[j].score
              /\ ret[i].score = DictGet(DictGet(evaluations,
                                                ret[i].result.combination_id),
                                        op.args.criterion)
              /\ ret[i].score = ret[j].score =>
                    DictIndex(evaluations, ret[i].result.combination_id)
                      < DictIndex(evaluations, ret[j].result.combination_id)

\* three items were returned, two of them tied, from stores whose orders differ
C9_Witness ==
    /\ op.name = "get_top_results"
    /\ Len(ret) = 3
    /\ ret[1].score > ret[2].score
    /\ ret[2].score = ret[3].score
    /\ results[1].k # evaluations[1].k

\* C10: an evaluate_results call with no results to evaluate (none passed,
\* none stored) returns an empty mapping, raises nothing and leaves the
\* stored evaluations as they were.
C10_NothingToEvaluate ==
    [][(/\ Called("evaluate_results")
        /\ op'.args.results = <<>>
        /\ results = <<>>) =>
          /\ ret' = <<>>
          /\ raised' = "none"
          /\ evaluations' = evaluations]_vars

\* evaluations were stored, and a call with nothing to evaluate came after
C10_Witness ==
    /\ op.name = "evaluate_results"
    /\ op.args.results = <<>>
    /\ results = <<>>
    /\ evaluations # <<>>
    /\ ret = <<>>

\* the four fields of the application state
StateFields ==
    [combinations |-> combinations, results |-> results,
     evaluations |-> evaluations, synthesized_ideas |-> synthesized_ideas]

\* C11: when load_state of the file that save_state wrote has returned (and
\* no later call has begun), the combinations, results, evaluations and
\* synthesized ideas are equal to the ones the application held when it
\* saved, whatever it did between the save and the load.
C11_SaveLoadRoundTrip ==
    (op.name = "load_state" /\ raised = "none" /\ exec.pc = "idle") =>
        /\ state_file.exists
        /\ StateFields = state_file.saved

\* a state with all four fields filled was saved and loaded
C11_Witness ==
    /\ op.name = "load_state"
    /\ raised = "none"
    /\ combinations # <<>>
    /\ results # <<>>
    /\ evaluations # <<>>
    /\ synthesized_ideas # <<>>

\* C12: format with a mapping that lacks a placeholder of the template fails
\* with the missing-variable error, whose message names the first placeholder
\* that is missing; with every placeholder supplied it returns the template
\* text with every placeholder replaced by its variable.
C12_FormatOrMissingVariable ==
    op.name = "format" =>
        LET parts == op.args.template.template
            given == DOMAIN op.args.variables
            lacking == {i \in 1..Len(parts) : parts[i].ph /\ parts[i].s \notin given}
        IN  IF lacking # {}
            THEN /\ raised = "ValueError"
                 /\ \E i \in lacking :
                       /\ \A j \in lacking : i <= j
                       /\ ret = <<"Missing required variable", parts[i].s,
                                  "for template", op.args.template.name>>
            ELSE /\ raised = "none"
                 /\ Len(ret) = Len(parts)
                 /\ \A i \in 1..Len(parts) :
                       ret[i] = IF parts[i].ph THEN op.args.variables[parts[i].s]
                                ELSE parts[i].s

\* a template with {domain} and {extra}, formatted with domain only, failed
\* naming extra
C12_Witness ==
    /\ op.name = "format"
    /\ \E i, j \in 1..Len(op.args.template.template) :
          /\ op.args.template.template[i] = Ph("domain")
          /\ op.args.template.template[j] = Ph("extra")
    /\ DOMAIN op.args.variables = {"domain"}
    /\ raised = "ValueError"
    /\ ret[2] = "extra"

\* C13: a generate_combinations call that succeeds replaces the working set:
\* after it the stored combinations are exactly the list it returned, whatever
\* was stored before.
C13_WorkingSetReplaced ==
    [][(Called("generate_combinations") /\ raised' = "none")
          => combinations' = ret']_vars

\* a second generation has just replaced a working set of which a combination
\* was executed: its result is stored, its combination is no longer
C13_Witness ==
    /\ op.name = "generate_combinations"
    /\ raised = "none"
    /\ combinations = ret
    /\ combinations # <<>>
    /\ \E id \in DictKeys(results) :
          \A i \in 1..Len(combinations) : combinations[i].id # id

\* C14: generate_combinations with a query id that names no base query raises
\* to the caller and leaves the working set as it was.
C14_UnknownQueryRaises ==
    [][(Called("generate_combinations")
          /\ ~DictHas(base_queries, op'.args.query_id))
          => (raised' # "none" /\ combinations' = combinations)]_vars

\* a generation with an unknown query id has failed on an application whose
\* working set was filled by an earlier generation
C14_Witness ==
    /\ op.name = "generate_combinations"
    /\ op.args.query_id = <<"q", "none">>
    /\ raised = "KeyError"
    /\ combinations # <<>>

\* C15: in every reachable state every combination id with a stored
\* evaluation also has a stored result.
C15_EvaluationsHaveResults ==
    DictKeys(evaluations) \subseteq DictKeys(results)

\* C16: once a client is cached for a model id, no step replaces or drops it,
\* and every backend call made for a combination of that model goes to that
\* same client instance.
C16_ClientReused ==
    [][\A model_id \in DictKeys(model_clients) :
          /\ DictHas(model_clients', model_id)
          /\ DictGet(model_clients', model_id) = DictGet(model_clients, model_id)
          /\ (/\ exec.pc = "running"
              /\ exec'.pc = "running"
              /\ Len(exec'.calls) > Len(exec.calls)
              /\ exec.batch[exec.i].model = model_id)
             => exec'.calls[Len(exec'.calls)].client
                   = DictGet(model_clients, model_id)]_vars

\* two combinations of one model were sent to a backend in one call of
\* execute_combinations, both through the same client
C16_Witness ==
    /\ exec.pc = "running"
    /\ \E a, b \in 1..Len(exec.calls) :
          /\ a < b
          /\ exec.batch[exec.calls[a].i].model = exec.batch[exec.calls[b].i].model
          /\ exec.calls[a].client = exec.calls[b].client
          /\ DictGet(model_clients, exec.batch[exec.calls[a].i].model)
                = exec.calls[a].client

\* C17: a call of execute_combinations with a cap m on a list of k
\* combinations that has returned went through exactly the first min(m, k)
\* combinations of the list, in list order.
C17_FirstMinExecuted ==
    (/\ op.name = "execute_combinations"
     /\ raised = "none"
     /\ ~op.args.dry_run
     /\ op.args.max_to_execute.given) =>
        LET m == op.args.max_to_execute.value
            k == Len(op.args.chosen)
        IN  /\ op.args.batch = SubSeq(op.args.chosen, 1, Min(m, k))
            /\ Len(op.args.status) = Min(m, k)

\* C18: a dry run of execute_combinations returns an empty mapping without
\* raising, does not enter the execution loop (no backend call, no
\* simulation, no client), and leaves results, evaluations, ideas, working
\* set and clients as they were.
C18_DryRunNoEffect ==
    [][(/\ exec.pc = "idle"
        /\ op' # op
        /\ op'.name = "execute_combinations"
        /\ op'.args.dry_run)
          => /\ ret' = <<>>
             /\ raised' = "none"
             /\ exec'.pc = "idle"
             /\ op'.args.status = <<>>
             /\ op'.args.calls = <<>>
             /\ UNCHANGED <<results, evaluations, synthesized_ideas,
                            combinations, model_clients>>]_vars

\* a dry run over a working set that holds combinations has returned
C18_Witness ==
    /\ op.name = "execute_combinations"
    /\ op.args.dry_run
    /\ op.args.batch # <<>>
    /\ combinations # <<>>
    /\ exec.pc = "idle"

\* the list a synthesize_ideas call works on: its argument, or the top ten
TopResultsOf(args) ==
    IF args.top_results.given THEN args.top_results.value
    ELSE get_top_results(evaluations, results, "overall", DefaultTopN)

\* C19: synthesize_ideas on a non-empty input with a method name that is
\* neither cluster_based nor cross_pollination raises nothing, returns the
\* empty mapping and leaves the idea collection as it was.
C19_UnknownMethodNoOp ==
    [][(/\ Called("synthesize_ideas")
        /\ op'.args.method \notin {"cluster_based", "cross_pollination"}
        /\ TopResultsOf(op'.args) # <<>>)
          => /\ raised' = "none"
             /\ ret' = <<>>
             /\ synthesized_ideas' = synthesized_ideas]_vars

\* a call with an unknown method has returned on an application that holds
\* evaluated results and ideas of an earlier synthesis
C19_Witness ==
    /\ op.name = "synthesize_ideas"
    /\ op.args.method = "other"
    /\ TopResultsOf(op.args) # <<>>
    /\ synthesized_ideas # <<>>
    /\ ret = <<>>

\* C20: cross_pollination over a non-empty list of (result, score) pairs
\* returns exactly one idea; its source_combinations are the combination ids
\* of all the pairs in input order and its sources_count is their number.
C20_OneCrossoverIdea ==
    (/\ op.name = "synthesize_ideas"
     /\ op.args.method = "cross_pollination"
     /\ op.args.top_results.given
     /\ op.args.top_results.value # <<>>) =>
        LET top == op.args.top_results.value
        IN  /\ raised = "none"
            /\ Len(ret) = 1
            /\ Len(ret[1].v.source_combinations) = Len(top)
            /\ \A j \in 1..Len(top) :
                  ret[1].v.source_combinations[j] = top[j].result.combination_id
            /\ ret[1].v.metadata.sources_count = Len(top)

\* cross_pollination over nine pairs has returned its idea
C20_Witness ==
    /\ op.name = "synthesize_ideas"
    /\ op.args.method = "cross_pollination"
    /\ op.args.top_results.given
    /\ Len(op.args.top_results.value) = 9
    /\ Len(ret) = 1
    /\ Len(ret[1].v.source_combinations) = 9

\* the entries of a stored evaluation other than "overall"
ScoredEntries(scores) == SelectSeq2(scores, DictKeys(scores) \ {"overall"})

C22_OnlyBackendError ==
    op.name = "generate" => raised \in {"none", "APIIntegrationError"}

\* the terminal states of a combination within a call
TerminalKinds == {"api_ok", "api_error", "simulated"}

\* C23: within one call of execute_combinations every step takes up the first
\* combination not yet run, and that combination ends in exactly one of:
\* answered by the backend, simulated, backend error recorded (or the call
\* raises on it); the states of the combinations run before stay as they
\* are, a combination is sent to a backend at most once, and the call returns
\* only when every combination of the batch has its terminal state.
C23_OncePerCombination ==
    [][(exec.pc = "running" /\ exec' # exec) =>
         \/ /\ exec'.pc = "running"
            /\ exec.i <= Len(exec.batch)
            /\ exec'.i = exec.i + 1
            /\ exec'.batch = exec.batch
            /\ Len(exec'.status) = exec.i
            /\ SubSeq(exec'.status, 1, exec.i - 1) = exec.status
            /\ exec'.status[exec.i] \in TerminalKinds
            /\ IF exec'.status[exec.i] = "simulated"
               THEN exec'.calls = exec.calls
               ELSE /\ Len(exec'.calls) = Len(exec.calls) + 1
                    /\ SubSeq(exec'.calls, 1, Len(exec.calls)) = exec.calls
                    /\ exec'.calls[Len(exec'.calls)].i = exec.i
                    /\ exec'.calls[Len(exec'.calls)].ok
                          = (exec'.status[exec.i] = "api_ok")
            /\ \A j \in 1..Len(exec.batch) :
                  Cardinality({c \in 1..Len(exec'.calls) : exec'.calls[c].i = j}) <= 1
         \/ /\ exec'.pc = "idle"
            /\ raised' = "none"
            /\ op'.name = "execute_combinations"
            /\ op'.args.status = exec.status
            /\ Len(exec.status) = Len(exec.batch)
            /\ op'.args.calls = exec.calls
         \/ /\ exec'.pc = "idle"
            /\ raised' # "none"
            /\ op'.name = "execute_combinations"
            /\ op'.args.status = Append(exec.status, "raised")
            /\ \A j \in 1..Len(exec.batch) :
                  Cardinality({c \in 1..Len(op'.args.calls) :
                                  op'.args.calls[c].i = j}) <= 1]_vars

\* a batch of two has been run through a backend: one combination was
\* answered, the other had its backend error recorded
C23_Witness ==
    /\ exec.pc = "running"
    /\ exec.i = 3
    /\ "api_ok" \in Range(exec.status)
    /\ "api_error" \in Range(exec.status)
    /\ Len(exec.calls) = 2

\* the ids of the combinations a stopped batch had processed
ProcessedIds ==
    IF op.name = "terminated" THEN Range(op.args.processed)
    ELSE {op.args.batch[j].id : j \in 1..(Len(op.args.status) - 1)}

\* C24: after a batch was stopped, by the end of the process or by an error
\* on a later combination, the results of the combinations processed before
\* the stop are still recorded under their ids: in the result store, or in
\* the state file the next process loads.
C24_ProcessedResultsRemain ==
    (\/ op.name = "terminated"
     \/ (op.name = "execute_combinations" /\ raised # "none")) =>
        \A id \in ProcessedIds :
           \/ DictHas(results, id)
           \/ (state_file.exists /\ DictHas(state_file.saved.results, id))

\* C25: no step of generate_combinations, execute_combinations,
\* evaluate_results or synthesize_ideas removes a key from the result store,
\* the evaluations or the idea collection.
C25_NoKeyRemoved ==
    [][/\ DictKeys(results) \subseteq DictKeys(results')
       /\ DictKeys(evaluations) \subseteq DictKeys(evaluations')
       /\ DictKeys(synthesized_ideas) \subseteq DictKeys(synthesized_ideas')]_vars

\* results and evaluations are stored, and a later batch that does not
\* contain every stored id has run a combination on top of them
C25_Witness ==
    /\ exec.pc = "running"
    /\ exec.i > 1
    /\ Cardinality(DictKeys(results)) >= 2
    /\ evaluations # <<>>
    /\ \E id \in DictKeys(results) :
          \A i \in 1..Len(exec.batch) : exec.batch[i].id # id

\* the response text of the result with the given combination id in a list
\* of (result, score) pairs
ResponseOf(pairs, combination_id) ==
    pairs[CHOOSE j \in 1..Len(pairs) :
             pairs[j].result.combination_id = combination_id].result.response

\* C26: the title of a cluster_based idea is the first line of the text of
\* the group's first result whose length is between 5 and 80 characters
\* inclusive, whenever the text has such a line.
C26_TitleIsFirstFittingLine ==
    (/\ op.name = "synthesize_ideas"
     /\ op.args.method = "cluster_based"
     /\ op.args.top_results.given) =>
        \A i \in 1..Len(ret) :
           LET lines == ResponseOf(op.args.top_results.value,
                                   ret[i].v.source_combinations[1])
               fit == {l \in 1..Len(lines) :
                          LineLen(lines[l]) >= 5 /\ LineLen(lines[l]) <= 80}
           IN  fit # {} =>
                  \E l \in fit : /\ \A m \in fit : l <= m
                                 /\ ret[i].v.title = lines[l]

\* C27: every id among the source_combinations of an idea that
\* run_complete_pipeline returns is the id of a combination that call
\* executed.
C27_SourcesFromThisRun ==
    op.name = "run_complete_pipeline" =>
        \A i \in 1..Len(ret) :
           Range(ret[i].v.source_combinations) \subseteq Range(op.args.executed)

\* C28: evaluate_results called with a results mapping of the caller, as
\* run_complete_pipeline calls it with what its execution returned, returns
\* evaluations for exactly the ids of that mapping, also when the mapping is
\* empty and the application holds stored results.
C28_ExactlyTheSupplied ==
    op.name = "run_complete_pipeline" =>
        DictKeys(op.args.evaluated) = DictKeys(op.args.results)

\* C29: after every step, each result stored under a key has that key as its
\* combination_id; and the result a step of execute_combinations stores for a
\* combination is stored under the combination's id and carries the
\* combination's model in its metadata, the other entries staying as they are.
C29_ResultMatchesCombination ==
    [][/\ \A i \in 1..Len(results') : results'[i].v.combination_id = results'[i].k
       /\ (exec.pc = "running" /\ exec'.pc = "running" /\ exec'.i = exec.i + 1) =>
             LET combo == exec.batch[exec.i]
             IN  /\ DictHas(results', combo.id)
                 /\ DictGet(results', combo.id).metadata.model = combo.model
                 /\ \A k \in DictKeys(results) \ {combo.id} :
                       /\ DictHas(results', k)
                       /\ DictGet(results', k) = DictGet(results, k)]_vars

\* the store holds a result of a backend call and a simulated result
C29_Witness ==
    /\ exec.pc = "running"
    /\ exec.i > 1
    /\ \E a, b \in 1..Len(results) :
          /\ "simulated" \in DOMAIN results[a].v.metadata
          /\ "duration" \in DOMAIN results[b].v.metadata

\* C30: generate_variations on a registered base query returns after at most
\* 3 * count strategy attempts, with at most count variations, whose texts
\* are pairwise distinct, and stores what it returns.
C30_BoundedDistinctVariations ==
    (op.name = "generate_variations" /\ raised = "none") =>
        /\ op.args.attempts <= 3 * op.args.count
        /\ Len(ret) <= op.args.count
        /\ \A i, j \in 1..Len(ret) : ret[i].text = ret[j].text => i = j
        /\ (Len(ret) < op.args.count => op.args.attempts = 3 * op.args.count)
        /\ DictGet(variations, op.args.query_id) = ret

\* a call that asked for two variations used all six attempts and returned one
C30_Witness ==
    /\ op.name = "generate_variations"
    /\ raised = "none"
    /\ op.args.count = 2
    /\ op.args.attempts = 6
    /\ Len(ret) = 1
====
